---- MODULE Spec2Model ----
(***************************************************************************)
(* Segment metadata of the AOE storage engine (package metadata):          *)
(* one Segment of one Table, its BlockSet / IdIndex, its commit chain and  *)
(* its sync.RWMutex, driven by concurrent callers of CreateBlock, Upgrade, *)
(* Appendable and CommittedView.                                           *)
(***************************************************************************)
EXTENDS Integers, Sequences, FiniteSets, TLC

\* ------------------------------------------------------------------ bounds
NumProcs == 3
MaxCalls == 3
MaxRaceCalls == 4
MaxSegmentMaxBlocks == 2
MaxTranId == 3
BlockMaxRows == 1
MaxRestarts == 1
MaxViewCalls == 3
MaxIndexCalls == 3
MaxIndex == 2
BlockTranId == 1
MaxReplayCalls == 3
MaxLogEntryCalls == 4
MaxNextBlockCalls == 3
MaxPacketCalls == 4
MaxFailAt == 2
MaxResultSets == 2
MaxColumns == 2
MaxRows == 2

Procs == 1..NumProcs
\* the callers of the general specifications; the last caller only joins
\* the race of Upgrade calls
Callers == 1..(NumProcs - 1)
TranIds == 1..MaxTranId
\* newSegmentEntry is given a tranId that leaves room for a later one
CreateTranIds == 1..(MaxTranId - 1)
\* the commit ids a view is asked for: one below every tranId included
ViewIds == 0..MaxTranId
\* a nil *ExternalIndex, and the ids of the external indices that are not nil
NilIndex == 0
Indexes == 1..MaxIndex
\* exIndice []*ExternalIndex: nil, or a slice of external indices
NilIndice == [IsNil |-> TRUE, Elems |-> <<>>]
Indice(elems) == [IsNil |-> FALSE, Elems |-> elems]
ExIndice == {NilIndice, Indice(<<>>), Indice(<<1>>), Indice(<<1, MaxIndex>>)}

VARIABLES
    SegmentMaxBlocks, \* Table.Schema.SegmentMaxBlocks
    CommitInfo,       \* BaseEntry.CommitInfo: the commit chain, oldest first
    BlockSet,         \* Segment.BlockSet
    IdIndex,          \* Segment.IdIndex: block id -> 0-based position
    Sequence,         \* Catalog.Sequence: last block id handed out
    log,              \* entries handed to Catalog.Commit, in order
    rwReaders,        \* RWMutex: read locks currently held
    rwWriter,         \* RWMutex: caller that has entered Lock() (0: none)
    rwHeld,           \* RWMutex: that caller holds the lock exclusively
    pc,               \* position of each caller
    ret,              \* value returned by each caller's last finished call
    be,               \* CreateBlock: id of the block entry being created
    tranId,           \* CreateBlock / Upgrade: tranId argument
    autoCommit,       \* CreateBlock / Upgrade: autoCommit argument
    exIndice,         \* Upgrade: exIndice argument
    applied,          \* GetAppliedIndex: the index returned (NilIndex: !ok)
    logEntry,         \* ToLogEntry: the log entry returned
    nextBlk,          \* SimpleGetOrCreateNextBlock: the id of the block returned
    viewId,           \* CommittedView: id argument
    blks,             \* CommittedView: the copied block list (block ids)
    view,             \* CommittedView: the view being built / returned
    calls,            \* calls that may still be started
    nrestarts,        \* restarts so far
    mp,               \* the MysqlProtocolImpl: sequenceId, capability,
                      \* beginWriteIndex, the out buffer's write index and
                      \* the packets written to tcpConn
    mpRet,            \* what the last call on mp returned
    curRow,           \* the row being written: where its packets start in
                      \* tcpConn and the bytes appended to it so far
    mpCalls           \* calls on mp that may still be made

segVars == <<SegmentMaxBlocks, CommitInfo, BlockSet, IdIndex>>
rwVars == <<rwReaders, rwWriter, rwHeld>>
procVars == <<pc, ret, be, tranId, autoCommit>>
upVars == <<exIndice, applied, logEntry, nextBlk>>
viewVars == <<viewId, blks, view>>
mpVars == <<mp, mpRet, curRow, mpCalls>>
segmentVars == <<segVars, Sequence, log, rwVars, procVars, upVars, viewVars,
                 calls, nrestarts>>
vars == <<SegmentMaxBlocks, CommitInfo, BlockSet, IdIndex, Sequence, log,
          rwReaders, rwWriter, rwHeld, pc, ret, be, tranId, autoCommit,
          exIndice, applied, logEntry, nextBlk, viewId, blks, view, calls, nrestarts,
          mp, mpRet, curRow, mpCalls>>

\* ------------------------------------------------------- BaseEntry, Block
EmptyIdIndex == [i \in {} |-> 0]

newCommitInfo(t, o) ==
    [TranId |-> t, CommitId |-> t, Op |-> o,
     AppliedIndex |-> NilIndex, ExternalIndex |-> NilIndex, PrevIndex |-> NilIndex]

current == CommitInfo[Len(CommitInfo)]

IsSorted == current.Op = "OpUpgradeSorted"

IsFull(blk) == blk.Count >= BlockMaxRows

\* a block: its id, its row count, the commit id and the applied index of
\* its own commit record
newBlockEntry(id, t) == [Id |-> id, Count |-> 0, CommitId |-> t, AppliedIndex |-> NilIndex]

NextBlockIdReissued == IF Sequence = 0 THEN Sequence + 1 ELSE Sequence

NextBlockId == Sequence + 1

\* --------------------------------------------------------------- Segment
newSegmentEntry(t) == <<newCommitInfo(t, "OpCreate")>>

HasMaxBlocksOffByOne(sorted, blocks, maxBlocks) == sorted \/ Len(blocks) + 1 = maxBlocks

HasMaxBlocks(sorted, blocks, maxBlocks) == sorted \/ Len(blocks) = maxBlocks

onNewBlockIdIndexAfterAppend(idx, blocks, id) ==
    [k \in DOMAIN idx \cup {id} |-> IF k = id THEN Len(blocks) + 1 ELSE idx[k]]

onNewBlockIdIndex(idx, blocks, id) ==
    [k \in DOMAIN idx \cup {id} |-> IF k = id THEN Len(blocks) ELSE idx[k]]

onNewBlockSetPrepend(blocks, entry) == <<entry>> \o blocks

onNewBlockSet(blocks, entry) == Append(blocks, entry)

\* BaseEntry.onNewCommit: a record whose CommitId is not above the last
\* record's is refused, the chain stays as it is
CanNewCommitAlways(chain, cInfo) == TRUE

CanNewCommitNonStrict(chain, cInfo) == cInfo.CommitId >= chain[Len(chain)].CommitId

CanNewCommit(chain, cInfo) == cInfo.CommitId > chain[Len(chain)].CommitId

onNewCommitPrepend(chain, cInfo) == <<cInfo>> \o chain

onNewCommit(chain, cInfo) == Append(chain, cInfo)

\* Upgrade, under the read lock: the error returned, or "pass"
UpgradeCheckNoMaxBlocks(maxBlocks, sorted, blocks) ==
    IF sorted THEN "UpgradeNotNeededErr"
    ELSE IF \E i \in 1..Len(blocks) : ~IsFull(blocks[i]) THEN "UpgradeInfullSegmentErr"
    ELSE "pass"

UpgradeCheckSortedInfull(maxBlocks, sorted, blocks) ==
    IF ~HasMaxBlocks(sorted, blocks, maxBlocks) THEN "UpgradeInfullSegmentErr"
    ELSE IF sorted THEN "UpgradeInfullSegmentErr"
    ELSE IF \E i \in 1..Len(blocks) : ~IsFull(blocks[i]) THEN "UpgradeInfullSegmentErr"
    ELSE "pass"

UpgradeCheck(maxBlocks, sorted, blocks) ==
    IF ~HasMaxBlocks(sorted, blocks, maxBlocks) THEN "UpgradeInfullSegmentErr"
    ELSE IF sorted THEN "UpgradeNotNeededErr"
    ELSE IF \E i \in 1..Len(blocks) : ~IsFull(blocks[i]) THEN "UpgradeInfullSegmentErr"
    ELSE "pass"

\* Upgrade, under the read lock: whether the path taken calls RUnlock
UpgradeCheckRUnlocks(maxBlocks, sorted, blocks) ==
    \/ ~HasMaxBlocks(sorted, blocks, maxBlocks)
    \/ UpgradeCheck(maxBlocks, sorted, blocks) = "pass"

\* Upgrade, under the exclusive lock: switch e.CommitInfo.Op
UpgradeNewOpAlways(o) == "OpUpgradeSorted"

UpgradeNewOp(o) == IF o = "OpCreate" THEN "OpUpgradeSorted" ELSE "none"

\* Block.GetAppliedIndex: the applied index of the block's commit record
BlockGetAppliedIndex(blk) == blk.AppliedIndex

\* the blocks are scanned from the newest to the oldest; the first applied
\* index found is the result (NilIndex: ok is false)
RECURSIVE calcAppliedIndexFrom(_, _)
calcAppliedIndexFrom(blocks, i) ==
    IF i < 1 THEN NilIndex
    ELSE IF BlockGetAppliedIndex(blocks[i]) # NilIndex
         THEN BlockGetAppliedIndex(blocks[i])
         ELSE calcAppliedIndexFrom(blocks, i - 1)

RECURSIVE calcAppliedIndexOldestFirst(_, _)
calcAppliedIndexOldestFirst(blocks, i) ==
    IF i > Len(blocks) THEN NilIndex
    ELSE IF BlockGetAppliedIndex(blocks[i]) # NilIndex
         THEN BlockGetAppliedIndex(blocks[i])
         ELSE calcAppliedIndexOldestFirst(blocks, i + 1)

calcAppliedIndexOldest(blocks) == calcAppliedIndexOldestFirst(blocks, 1)

calcAppliedIndex(blocks) == calcAppliedIndexFrom(blocks, Len(blocks))

\* BaseEntry.GetAppliedIndex: the applied index of the last commit record
BaseEntryGetAppliedIndex(chain) == chain[Len(chain)].AppliedIndex

\* GetAppliedIndex, under the read lock
GetAppliedIndexResult(chain, blocks) ==
    IF chain[Len(chain)].Op = "OpUpgradeSorted"
    THEN BaseEntryGetAppliedIndex(chain)
    ELSE calcAppliedIndex(blocks)

\* Upgrade, under the exclusive lock: exIndice[0] of an empty slice
UpgradeIndicePanics(ex) == ~ex.IsNil /\ Len(ex.Elems) = 0

UpgradeCommitInfoSwapped(t, o, ex, blocks) ==
    IF ex.IsNil
    THEN [newCommitInfo(t, o) EXCEPT !.AppliedIndex = calcAppliedIndex(blocks)]
    ELSE [newCommitInfo(t, o) EXCEPT
             !.PrevIndex = ex.Elems[1],
             !.ExternalIndex = IF Len(ex.Elems) > 1 THEN ex.Elems[2] ELSE NilIndex]

\* Upgrade, under the exclusive lock: the commit record handed to onNewCommit
UpgradeCommitInfo(t, o, ex, blocks) ==
    IF ex.IsNil
    THEN [newCommitInfo(t, o) EXCEPT !.AppliedIndex = calcAppliedIndex(blocks)]
    ELSE [newCommitInfo(t, o) EXCEPT
             !.ExternalIndex = ex.Elems[1],
             !.PrevIndex = IF Len(ex.Elems) > 1 THEN ex.Elems[2] ELSE NilIndex]

UpgradeCommitAlways(lg, auto) == Append(lg, [Type |-> "ETUpgradeSegment", Id |-> 0])

\* Upgrade, after onNewCommit: if !autoCommit { return nil }; Catalog.Commit
UpgradeCommit(lg, auto) ==
    IF auto THEN Append(lg, [Type |-> "ETUpgradeSegment", Id |-> 0]) ELSE lg

\* the types of log entry, and the entry that was not produced
LogEntryTypes == {"ETCreateSegment", "ETUpgradeSegment", "ETDropSegment",
                  "ETCreateBlock", "ETUpgradeBlock", "ETDropBlock"}
NilLogEntry == [Type |-> "none", BaseEntry |-> <<>>]

\* BaseEntry.IsSoftDeletedLocked: the last op is SoftDelete
IsSoftDeletedLocked(chain) == chain[Len(chain)].Op = "OpSoftDelete"

ToLogEntryCheckNoDrop(eType, chain) ==
    IF eType \in {"ETCreateSegment", "ETUpgradeSegment", "ETDropSegment"} THEN "ok"
    ELSE "panic: not supported"

\* ToLogEntry, the switch on eType: the panic raised, or "ok"
ToLogEntryCheck(eType, chain) ==
    IF eType \in {"ETCreateSegment", "ETUpgradeSegment"} THEN "ok"
    ELSE IF eType = "ETDropSegment"
         THEN IF ~IsSoftDeletedLocked(chain) THEN "panic: logic error" ELSE "ok"
    ELSE "panic: not supported"

\* ToLogEntry, past the switch: the entry of the given type that carries
\* the marshalled BaseEntry
ToLogEntryEntry(eType, chain) == [Type |-> eType, BaseEntry |-> chain]

\* BaseEntry.UseCommitted: the last record whose CommitId is not above id,
\* scanning from the newest backward; <<>> is nil
RECURSIVE UseCommittedFrom(_, _, _)
UseCommittedFrom(chain, i, id) ==
    IF i < 1 THEN <<>>
    ELSE IF chain[i].CommitId <= id THEN <<chain[i]>>
    ELSE UseCommittedFrom(chain, i - 1, id)

UseCommittedNeverNil(chain, id) ==
    IF UseCommittedFrom(chain, Len(chain), id) = <<>>
    THEN <<chain[1]>>
    ELSE UseCommittedFrom(chain, Len(chain), id)

UseCommittedCurrent(chain, id) ==
    IF chain[1].CommitId <= id THEN <<chain[Len(chain)]>> ELSE <<>>

UseCommitted(chain, id) == UseCommittedFrom(chain, Len(chain), id)

\* Block.CommittedView: nil (<<>>) for a block created after id
BlockCommittedView(blk, id) == IF blk.CommitId <= id THEN <<blk>> ELSE <<>>

\* a nil *Segment, and the view CommittedView starts from
NilView == [IsNil |-> TRUE, BaseEntry |-> <<>>, BlockSet |-> <<>>]
newView(baseEntry) == [IsNil |-> FALSE, BaseEntry |-> baseEntry, BlockSet |-> <<>>]

\* CommittedView, under the read lock: blks, the blocks copied by reference
CommittedViewCopy(blocks) == [i \in 1..Len(blocks) |-> blocks[i].Id]

\* the block a copied reference points to
BlockOf(blocks, id) == blocks[CHOOSE i \in 1..Len(blocks) : blocks[i].Id = id]

\* the ids of the blocks of a block set
BlockIds(blocks) == {blocks[i].Id : i \in 1..Len(blocks)}

CommittedViewRangeLive(copied, blocks) == CommittedViewCopy(blocks)

\* CommittedView, after RUnlock: the list the loop ranges over
CommittedViewRange(copied, blocks) == copied

RECURSIVE CommittedViewBlocksPrepend(_, _, _, _, _)
CommittedViewBlocksPrepend(blocks, refs, i, id, acc) ==
    IF i > Len(refs) THEN acc
    ELSE CommittedViewBlocksPrepend(blocks, refs, i + 1, id,
             BlockCommittedView(BlockOf(blocks, refs[i]), id) \o acc)

\* CommittedView, after RUnlock: the views of the copied blocks that are
\* not nil, appended in order
RECURSIVE CommittedViewBlocks(_, _, _, _, _)
CommittedViewBlocks(blocks, refs, i, id, acc) ==
    IF i > Len(refs) THEN acc
    ELSE CommittedViewBlocks(blocks, refs, i + 1, id,
             acc \o BlockCommittedView(BlockOf(blocks, refs[i]), id))

\* no block: var ret *Block
NilBlock == 0

\* Block.Less: from is ordered before blk; a nil from is before every block
Less(from, blk) == from = NilBlock \/ from < blk.Id

NextBlockFromLatest(blocks, from, i, found) ==
    IF i < 1 THEN found
    ELSE IF ~IsFull(blocks[i]) /\ Less(from, blocks[i]) THEN blocks[i].Id
    ELSE found

\* SimpleGetOrCreateNextBlock, the loop from the last block down: the
\* earliest block of the trailing blocks that are not full and after from
RECURSIVE NextBlockFrom(_, _, _, _)
NextBlockFrom(blocks, from, i, found) ==
    IF i < 1 THEN found
    ELSE IF ~IsFull(blocks[i]) /\ Less(from, blocks[i])
         THEN NextBlockFrom(blocks, from, i - 1, blocks[i].Id)
    ELSE found

\* SimpleGetOrCreateNextBlock: whether SimpleCreateBlock is called, and
\* the block returned if it is not
GetOrCreateNextBlock(blocks, from, hasMax) ==
    IF Len(blocks) = 0 THEN [create |-> TRUE, blk |-> NilBlock]
    ELSE LET r == NextBlockFrom(blocks, from, Len(blocks), NilBlock)
         IN IF r # NilBlock \/ hasMax
            THEN [create |-> FALSE, blk |-> r]
            ELSE [create |-> TRUE, blk |-> NilBlock]

\* Appendable, under the read lock
AppendableResult(hasMax, blocks) ==
    IF hasMax
    THEN IF Len(blocks) = 0
         THEN "panic: index out of range"
         ELSE IF ~IsFull(blocks[Len(blocks)]) THEN "true" ELSE "false"
    ELSE "true"

\* Sequence.TryUpdateBlockId
TryUpdateBlockId(seq, id) == IF id > seq THEN id ELSE seq

RECURSIVE rebuildIdIndexOneBased(_, _, _)
rebuildIdIndexOneBased(blocks, i, idx) ==
    IF i > Len(blocks) THEN idx
    ELSE rebuildIdIndexOneBased(blocks, i + 1,
             [k \in DOMAIN idx \cup {blocks[i].Id} |->
                 IF k = blocks[i].Id THEN i ELSE idx[k]])

RECURSIVE rebuildIdIndex(_, _, _)
rebuildIdIndex(blocks, i, idx) ==
    IF i > Len(blocks) THEN idx
    ELSE rebuildIdIndex(blocks, i + 1,
             [k \in DOMAIN idx \cup {blocks[i].Id} |->
                 IF k = blocks[i].Id THEN i - 1 ELSE idx[k]])

\* json.Marshal(e): BaseEntry and BlockSet are written, Table, Catalog and
\* IdIndex (json:"-") are not
Marshal(chain, blocks, idx) == [BaseEntry |-> chain, BlockSet |-> blocks]

\* json.Unmarshal(buf, e) into a new Segment: IdIndex is left empty
Unmarshal(buf) ==
    [CommitInfo |-> buf.BaseEntry, BlockSet |-> buf.BlockSet, IdIndex |-> EmptyIdIndex]

rebuildSequenceSkipped(blocks, i, seq) == seq

RECURSIVE rebuildSequence(_, _, _)
rebuildSequence(blocks, i, seq) ==
    IF i > Len(blocks) THEN seq
    ELSE rebuildSequence(blocks, i + 1, TryUpdateBlockId(seq, blocks[i].Id))

\* ---------------------------------------------------------------- RWMutex
\* RLock returns at once unless a writer has entered Lock().
CanRLock == rwWriter = 0
\* Lock() first excludes other writers, then waits for the readers to leave.
CanEnterLock == rwWriter = 0
CanLock(p) == rwWriter = p /\ ~rwHeld /\ rwReaders = 0

\* ------------------------------------------------- MySQL protocol packets
MaxPayloadSize == 16777215
HeaderLengthOfTheProtocol == 4
HeaderOffset == 0

\* the capabilities the packet senders look at
Capabilities == {"CLIENT_PROTOCOL_41", "CLIENT_DEPRECATE_EOF"}

Min(a, b) == IF a < b THEN a ELSE b

\* sequenceId atomic.Uint32, kept as its low byte and its three high bytes
Uint32(hi, lo) == [hi |-> hi, lo |-> lo]

\* a protocol object after resetPacket(): no packet is open
NewMysqlClientProtocol(seq, capability) ==
    [sequenceId |-> seq, capability |-> capability,
     beginWriteIndex |-> -1, writeIndex |-> 0, tcpConn |-> <<>>]

\* uint8(mp.sequenceId.Load()): the low byte of the counter
GetSequenceId(m) == m.sequenceId.lo

AddSequenceIdSaturating(m, a) ==
    [m EXCEPT !.sequenceId = Uint32(@.hi, Min(@.lo + a, 255))]

\* mp.sequenceId.Add(uint32(a)), in 32 bits
AddSequenceId(m, a) ==
    [m EXCEPT !.sequenceId = Uint32((@.hi + ((@.lo + a) \div 256)) % (2^24),
                                    (@.lo + a) % 256)]

\* a packet on the connection: the header's payload length and sequence
\* id, what the payload is, and where in the logical payload it starts
Packet(len, seq, kind, from) == [Len |-> len, Seq |-> seq, Kind |-> kind, From |-> from]

\* tcpConn.Write of one packet; a closed packet of the out buffer
Write(m, pkt) == [m EXCEPT !.tcpConn = Append(@, pkt)]

\* writePackets from position i of a payload of the given length; the
\* failAt-th tcpConn.Write of the call fails (0: none does), w writes were
\* made before.  The result: the protocol, the error, the writes made.
RECURSIVE writePacketsFromNoZero(_, _, _, _, _, _)
writePacketsFromNoZero(m, length, i, kind, failAt, w) ==
    IF i >= length THEN [mp |-> m, err |-> FALSE, w |-> w]
    ELSE LET curLen == Min(MaxPayloadSize, length - i)
         IN IF w + 1 = failAt THEN [mp |-> m, err |-> TRUE, w |-> w + 1]
            ELSE writePacketsFromNoZero(
                     AddSequenceId(Write(m, Packet(curLen, GetSequenceId(m), kind, i)), 1),
                     length, i + curLen, kind, failAt, w + 1)

RECURSIVE writePacketsFrom(_, _, _, _, _, _)
writePacketsFrom(m, length, i, kind, failAt, w) ==
    IF i >= length THEN [mp |-> m, err |-> FALSE, w |-> w]
    ELSE LET curLen == Min(MaxPayloadSize, length - i)
         IN IF w + 1 = failAt THEN [mp |-> m, err |-> TRUE, w |-> w + 1]
            ELSE LET m1 == AddSequenceId(
                               Write(m, Packet(curLen, GetSequenceId(m), kind, i)), 1)
                 IN IF i + curLen = length /\ curLen = MaxPayloadSize
                    THEN \* a zero-size payload follows a last packet that is full
                         IF w + 2 = failAt THEN [mp |-> m1, err |-> TRUE, w |-> w + 2]
                         ELSE writePacketsFrom(
                                  AddSequenceId(
                                      Write(m1, Packet(0, GetSequenceId(m1), kind, length)), 1),
                                  length, i + curLen, kind, failAt, w + 2)
                    ELSE writePacketsFrom(m1, length, i + curLen, kind, failAt, w + 1)

writePackets(m, length, kind, failAt, w) ==
    writePacketsFrom(m, length, HeaderOffset, kind, failAt, w)

\* rowHandler
isInPacket(m) == m.beginWriteIndex >= 0
resetPacket(m) == [m EXCEPT !.beginWriteIndex = -1]

\* openPacket: four bytes of the out buffer are kept for the header
openPacket(m) ==
    [m EXCEPT !.beginWriteIndex = m.writeIndex,
              !.writeIndex = m.writeIndex + HeaderLengthOfTheProtocol]

\* the length of the data in the open packet
PayLoadLen(m) == m.writeIndex - m.beginWriteIndex - HeaderLengthOfTheProtocol

\* closePacket: the header of the open packet is written; a zero packet is
\* appended to a full one when appendZeroPacket is set
closePacket(m, appendZeroPacket) ==
    IF ~isInPacket(m) THEN [mp |-> m, err |-> FALSE]
    ELSE IF PayLoadLen(m) < 0 \/ PayLoadLen(m) > MaxPayloadSize
         THEN [mp |-> m, err |-> TRUE]
    ELSE LET m1 == AddSequenceId(
                       Write(m, Packet(PayLoadLen(m), GetSequenceId(m), "row", 0)), 1)
         IN IF appendZeroPacket /\ PayLoadLen(m) = MaxPayloadSize
            THEN LET m2 == openPacket(m1)
                 IN [mp |-> resetPacket(AddSequenceId(
                                Write(m2, Packet(0, GetSequenceId(m2), "row", 0)), 1)),
                     err |-> FALSE]
            ELSE [mp |-> resetPacket(m1), err |-> FALSE]

\* fillPacket from position i of n bytes
RECURSIVE fillPacketFrom(_, _, _)
fillPacketFrom(m, n, i) ==
    IF i >= n THEN [mp |-> m, err |-> FALSE]
    ELSE LET m0 == IF ~isInPacket(m) THEN openPacket(m) ELSE m
             hasDataLen == PayLoadLen(m0)
             curLen == Min(MaxPayloadSize - hasDataLen, n - i)
         IN IF curLen < 0 THEN [mp |-> m0, err |-> TRUE]
            ELSE LET m1 == [m0 EXCEPT !.writeIndex = @ + curLen]
                 IN IF PayLoadLen(m1) = MaxPayloadSize
                    THEN \* > 16MB, split it
                         LET c == closePacket(m1, i + curLen = n)
                         IN IF c.err THEN c ELSE fillPacketFrom(c.mp, n, i + curLen)
                    ELSE fillPacketFrom(m1, n, i + curLen)

fillPacket(m, n) == fillPacketFrom(m, n, 0)

\* openRow, closeRow without the flush of the out buffer
openRow(m) == openPacket(m)
closeRow(m) == closePacket(m, TRUE)

\* the lengths of the payloads sendResultSet writes
IntLenEncLen(value) ==
    IF value < 251 THEN 1
    ELSE IF value < 2^16 THEN 3
    ELSE IF value < 2^24 THEN 4
    ELSE 9
ColumnDefinition41Len == (1 + 3) + 5 + (1 + 2 + 4 + 1 + 2 + 1 + 2)
EOFPayloadLen(m) == 1 + (IF "CLIENT_PROTOCOL_41" \in m.capability THEN 4 ELSE 0)
OKPayloadLen(m) == 3 + (IF "CLIENT_PROTOCOL_41" \in m.capability THEN 4 ELSE 0) + 1
ErrPayloadLen(m) == 3 + (IF "CLIENT_PROTOCOL_41" \in m.capability THEN 6 ELSE 0) + 1

\* the data of row r of the result sets sent here: r + 1 bytes
RowLen(r) == r + 1

SendColumnCountPacket(m, count, failAt, w) ==
    writePackets(m, IntLenEncLen(count), "count", failAt, w)

\* var data []byte stays nil without CLIENT_PROTOCOL_41
SendColumnDefinitionPacket(m, failAt, w) ==
    writePackets(m, IF "CLIENT_PROTOCOL_41" \in m.capability
                    THEN ColumnDefinition41Len ELSE 0,
                 "column", failAt, w)

sendEOFPacket(m, failAt, w) == writePackets(m, EOFPayloadLen(m), "EOF", failAt, w)
sendOKPacketWithEof(m, failAt, w) == writePackets(m, OKPayloadLen(m), "OKWithEof", failAt, w)
sendErrPacket(m, failAt, w) == writePackets(m, ErrPayloadLen(m), "ERR", failAt, w)

RECURSIVE sendColumnsFrom(_, _, _, _, _)
sendColumnsFrom(m, count, i, failAt, w) ==
    IF i >= count
    THEN IF "CLIENT_DEPRECATE_EOF" \notin m.capability
         THEN sendEOFPacket(m, failAt, w)
         ELSE [mp |-> m, err |-> FALSE, w |-> w]
    ELSE LET r == SendColumnDefinitionPacket(m, failAt, w)
         IN IF r.err THEN r ELSE sendColumnsFrom(r.mp, count, i + 1, failAt, r.w)

sendColumns(m, count, failAt, w) == sendColumnsFrom(m, count, 0, failAt, w)

\* sendResultSetTextRow of a row of n bytes; rowErr: "make" when
\* makeResultSetTextRow fails, "flush" when the flush of closeRow fails
sendResultSetTextRow(m, n, rowErr, failAt, w) ==
    LET m1 == openRow(m)
    IN IF rowErr = "make"
       THEN LET e == sendErrPacket(m1, failAt, w)
            IN [mp |-> e.mp, err |-> TRUE, w |-> e.w]
       ELSE LET f == fillPacket(m1, n)
            IN IF f.err THEN [mp |-> f.mp, err |-> TRUE, w |-> w]
               ELSE LET c == closeRow(f.mp)
                    IN [mp |-> c.mp, err |-> c.err \/ rowErr = "flush", w |-> w]

\* the rows from row i on; row badRow - 1 fails with rowErr (0: no row fails)
RECURSIVE sendRowsFrom(_, _, _, _, _, _, _)
sendRowsFrom(m, rows, i, badRow, rowErr, failAt, w) ==
    IF i >= rows THEN [mp |-> m, err |-> FALSE, w |-> w]
    ELSE LET r == sendResultSetTextRow(m, RowLen(i),
                                       IF badRow = i + 1 THEN rowErr ELSE "none",
                                       failAt, w)
         IN IF r.err THEN r
            ELSE sendRowsFrom(r.mp, rows, i + 1, badRow, rowErr, failAt, r.w)

sendResultSet(m, cols, rows, badRow, rowErr, failAt) ==
    LET c == SendColumnCountPacket(m, cols, failAt, 0)
    IN IF c.err THEN c
       ELSE LET d == sendColumns(c.mp, cols, failAt, c.w)
            IN IF d.err THEN d
               ELSE LET r == sendRowsFrom(d.mp, rows, 0, badRow, rowErr, failAt, d.w)
                    IN IF r.err THEN r
                       ELSE IF "CLIENT_DEPRECATE_EOF" \in r.mp.capability
                            THEN sendOKPacketWithEof(r.mp, failAt, r.w)
                            ELSE sendEOFPacket(r.mp, failAt, r.w)

\* no row is being written
NoRow == [open |-> FALSE, first |-> 0, total |-> 0]

\* the segment's specifications make no call on a connection
NoConnection ==
    /\ mp = NewMysqlClientProtocol(Uint32(0, 0), Capabilities)
    /\ mpRet = "none"
    /\ curRow = NoRow
    /\ mpCalls = 0

\* ------------------------------------------------------------------- Init
\* a fresh segment of a fresh table, and a budget of n calls
InitSegment(n) ==
    /\ SegmentMaxBlocks \in 0..MaxSegmentMaxBlocks
    /\ \E t \in CreateTranIds : CommitInfo = newSegmentEntry(t)
    /\ BlockSet = <<>>
    /\ IdIndex = EmptyIdIndex
    /\ Sequence = 0
    /\ log = <<>>
    /\ rwReaders = 0
    /\ rwWriter = 0
    /\ rwHeld = FALSE
    /\ pc = [p \in Procs |-> "idle"]
    /\ ret = [p \in Procs |-> "none"]
    /\ be = [p \in Procs |-> 0]
    /\ tranId = [p \in Procs |-> 0]
    /\ autoCommit = [p \in Procs |-> FALSE]
    /\ exIndice = [p \in Procs |-> NilIndice]
    /\ applied = [p \in Procs |-> NilIndex]
    /\ logEntry = [p \in Procs |-> NilLogEntry]
    /\ nextBlk = [p \in Procs |-> NilBlock]
    /\ viewId = [p \in Procs |-> 0]
    /\ blks = [p \in Procs |-> <<>>]
    /\ view = [p \in Procs |-> NilView]
    /\ calls = n
    /\ nrestarts = 0

Init == InitSegment(MaxCalls) /\ NoConnection

\* ----------------------------------------------------------- lock steps
\* e.RLock()
RLock(p) ==
    /\ pc[p] \in {"up_rlock", "ap_rlock", "cv_rlock", "ga_rlock"}
    /\ CanRLock
    /\ rwReaders' = rwReaders + 1
    /\ pc' = [pc EXCEPT ![p] = IF pc[p] = "up_rlock" THEN "up_check"
                               ELSE IF pc[p] = "ap_rlock" THEN "ap_check"
                               ELSE IF pc[p] = "ga_rlock" THEN "ga_check"
                               ELSE "cv_copy"]
    /\ UNCHANGED <<mpVars, segVars, Sequence, log, rwWriter, rwHeld, ret, be, tranId,
                   autoCommit, upVars, viewVars, calls, nrestarts>>

\* e.Lock(), first half: the caller becomes the pending writer
Lock(p) ==
    /\ pc[p] \in {"cb_lock", "up_lock"}
    /\ CanEnterLock
    /\ rwWriter' = p
    /\ pc' = [pc EXCEPT ![p] = IF pc[p] = "cb_lock" THEN "cb_wait" ELSE "up_wait"]
    /\ UNCHANGED <<mpVars, segVars, Sequence, log, rwReaders, rwHeld, ret, be, tranId,
                   autoCommit, upVars, viewVars, calls, nrestarts>>

\* e.Lock(), second half: the readers have left
LockAcquire(p) ==
    /\ pc[p] \in {"cb_wait", "up_wait"}
    /\ CanLock(p)
    /\ rwHeld' = TRUE
    /\ pc' = [pc EXCEPT ![p] = IF pc[p] = "cb_wait" THEN "cb_locked" ELSE "up_locked"]
    /\ UNCHANGED <<mpVars, segVars, Sequence, log, rwReaders, rwWriter, ret, be, tranId,
                   autoCommit, upVars, viewVars, calls, nrestarts>>

\* ----------------------------------------------------------- CreateBlock
\* be := newBlockEntry(e, tranId, exIndex)
CreateBlock(p, t, a) ==
    /\ pc[p] = "idle"
    /\ calls > 0
    /\ tranId' = [tranId EXCEPT ![p] = t]
    /\ autoCommit' = [autoCommit EXCEPT ![p] = a]
    /\ Sequence' = NextBlockId
    /\ be' = [be EXCEPT ![p] = NextBlockId]
    /\ pc' = [pc EXCEPT ![p] = "cb_lock"]
    /\ calls' = calls - 1
    /\ UNCHANGED <<mpVars, segVars, log, rwVars, ret, upVars, viewVars, nrestarts>>

\* e.onNewBlock(be); e.Unlock(); if !autoCommit { return be }
CreateBlockLocked(p) ==
    /\ pc[p] = "cb_locked"
    /\ IdIndex' = onNewBlockIdIndex(IdIndex, BlockSet, be[p])
    /\ BlockSet' = onNewBlockSet(BlockSet, newBlockEntry(be[p], tranId[p]))
    /\ rwWriter' = 0
    /\ rwHeld' = FALSE
    /\ tranId' = [tranId EXCEPT ![p] = 0]
    /\ IF autoCommit[p]
       THEN /\ pc' = [pc EXCEPT ![p] = "cb_commit"]
            /\ UNCHANGED <<ret, be, autoCommit>>
       ELSE /\ pc' = [pc EXCEPT ![p] = "idle"]
            /\ ret' = [ret EXCEPT ![p] = "be"]
            /\ be' = [be EXCEPT ![p] = 0]
            /\ UNCHANGED autoCommit
    /\ UNCHANGED <<mpVars, SegmentMaxBlocks, CommitInfo, Sequence, log, rwReaders,
                   upVars, viewVars, calls, nrestarts>>

CreateBlockCommitTwice(p) ==
    /\ pc[p] = "cb_commit"
    /\ log' = Append(Append(log, [Type |-> "ETCreateBlock", Id |-> be[p]]),
                     [Type |-> "ETCreateBlock", Id |-> be[p]])
    /\ pc' = [pc EXCEPT ![p] = "idle"]
    /\ ret' = [ret EXCEPT ![p] = "be"]
    /\ be' = [be EXCEPT ![p] = 0]
    /\ autoCommit' = [autoCommit EXCEPT ![p] = FALSE]
    /\ UNCHANGED <<mpVars, segVars, Sequence, rwVars, tranId, upVars, viewVars, calls,
                   nrestarts>>

\* e.Catalog.Commit(be, ETCreateBlock, nil); return be
CreateBlockCommit(p) ==
    /\ pc[p] = "cb_commit"
    /\ log' = Append(log, [Type |-> "ETCreateBlock", Id |-> be[p]])
    /\ pc' = [pc EXCEPT ![p] = "idle"]
    /\ ret' = [ret EXCEPT ![p] = "be"]
    /\ be' = [be EXCEPT ![p] = 0]
    /\ autoCommit' = [autoCommit EXCEPT ![p] = FALSE]
    /\ UNCHANGED <<mpVars, segVars, Sequence, rwVars, tranId, upVars, viewVars, calls,
                   nrestarts>>

\* ---------------------------------------------------------------- Upgrade
Upgrade(p, t, ex, a) ==
    /\ pc[p] = "idle"
    /\ calls > 0
    /\ tranId' = [tranId EXCEPT ![p] = t]
    /\ exIndice' = [exIndice EXCEPT ![p] = ex]
    /\ autoCommit' = [autoCommit EXCEPT ![p] = a]
    /\ pc' = [pc EXCEPT ![p] = "up_rlock"]
    /\ calls' = calls - 1
    /\ UNCHANGED <<mpVars, segVars, Sequence, log, rwVars, ret, be, applied, logEntry, nextBlk, viewVars,
                   nrestarts>>

\* the checks made under the read lock
UpgradeRLocked(p) ==
    /\ pc[p] = "up_check"
    /\ LET r == UpgradeCheck(SegmentMaxBlocks, IsSorted, BlockSet)
           u == UpgradeCheckRUnlocks(SegmentMaxBlocks, IsSorted, BlockSet)
       IN /\ rwReaders' = IF u THEN rwReaders - 1 ELSE rwReaders
          /\ IF r = "pass"
             THEN /\ pc' = [pc EXCEPT ![p] = "up_lock"]
                  /\ UNCHANGED <<ret, tranId, autoCommit, exIndice>>
             ELSE /\ pc' = [pc EXCEPT ![p] = "idle"]
                  /\ ret' = [ret EXCEPT ![p] = r]
                  /\ tranId' = [tranId EXCEPT ![p] = 0]
                  /\ exIndice' = [exIndice EXCEPT ![p] = NilIndice]
                  /\ autoCommit' = [autoCommit EXCEPT ![p] = FALSE]
    /\ UNCHANGED <<mpVars, segVars, Sequence, log, rwWriter, rwHeld, be, applied, logEntry, nextBlk, viewVars,
                   calls, nrestarts>>

\* the body run under the exclusive lock, released on return
UpgradeLocked(p) ==
    /\ pc[p] = "up_locked"
    /\ LET newOp == UpgradeNewOp(current.Op)
       IN IF newOp = "none"
          THEN /\ ret' = [ret EXCEPT ![p] = "UpgradeNotNeededErr"]
               /\ UNCHANGED <<CommitInfo, log>>
          ELSE IF UpgradeIndicePanics(exIndice[p])
          THEN /\ ret' = [ret EXCEPT ![p] = "panic: index out of range"]
               /\ UNCHANGED <<CommitInfo, log>>
          ELSE LET cInfo == UpgradeCommitInfo(tranId[p], newOp, exIndice[p], BlockSet)
               IN IF ~CanNewCommit(CommitInfo, cInfo)
                  THEN /\ ret' = [ret EXCEPT ![p] = "panic: InvariantViolation"]
                       /\ UNCHANGED <<CommitInfo, log>>
                  ELSE /\ CommitInfo' = onNewCommit(CommitInfo, cInfo)
                       /\ log' = UpgradeCommit(log, autoCommit[p])
                       /\ ret' = [ret EXCEPT ![p] = "nil"]
    /\ rwWriter' = 0
    /\ rwHeld' = FALSE
    /\ pc' = [pc EXCEPT ![p] = "idle"]
    /\ tranId' = [tranId EXCEPT ![p] = 0]
    /\ exIndice' = [exIndice EXCEPT ![p] = NilIndice]
    /\ autoCommit' = [autoCommit EXCEPT ![p] = FALSE]
    /\ UNCHANGED <<mpVars, SegmentMaxBlocks, BlockSet, IdIndex, Sequence, rwReaders, be,
                   applied, logEntry, nextBlk, viewVars, calls, nrestarts>>

\* ------------------------------------------------------------- Appendable
Appendable(p) ==
    /\ pc[p] = "idle"
    /\ calls > 0
    /\ pc' = [pc EXCEPT ![p] = "ap_rlock"]
    /\ calls' = calls - 1
    /\ UNCHANGED <<mpVars, segVars, Sequence, log, rwVars, ret, be, tranId, autoCommit,
                   upVars, viewVars, nrestarts>>

\* the body run under the read lock, released on return
AppendableRLocked(p) ==
    /\ pc[p] = "ap_check"
    /\ ret' = [ret EXCEPT ![p] = AppendableResult(HasMaxBlocks(IsSorted, BlockSet, SegmentMaxBlocks), BlockSet)]
    /\ rwReaders' = rwReaders - 1
    /\ pc' = [pc EXCEPT ![p] = "idle"]
    /\ UNCHANGED <<mpVars, segVars, Sequence, log, rwWriter, rwHeld, be, tranId, autoCommit,
                   upVars, viewVars, calls, nrestarts>>

\* -------------------------------------------------------- GetAppliedIndex
\* GetAppliedIndex(nil): the segment's read lock is taken by the call
GetAppliedIndex(p) ==
    /\ pc[p] = "idle"
    /\ calls > 0
    /\ pc' = [pc EXCEPT ![p] = "ga_rlock"]
    /\ calls' = calls - 1
    /\ UNCHANGED <<mpVars, segVars, Sequence, log, rwVars, ret, be, tranId, autoCommit,
                   upVars, viewVars, nrestarts>>

\* the body run under the read lock, released on return
GetAppliedIndexRLocked(p) ==
    /\ pc[p] = "ga_check"
    /\ applied' = [applied EXCEPT ![p] = GetAppliedIndexResult(CommitInfo, BlockSet)]
    /\ ret' = [ret EXCEPT ![p] = "index"]
    /\ rwReaders' = rwReaders - 1
    /\ pc' = [pc EXCEPT ![p] = "idle"]
    /\ UNCHANGED <<mpVars, segVars, Sequence, log, rwWriter, rwHeld, be, tranId, autoCommit,
                   exIndice, logEntry, nextBlk, viewVars, calls, nrestarts>>

\* ------------------------------------------------------------- ToLogEntry
\* not safe: called on a segment no writer is changing
ToLogEntry(p, eType) ==
    /\ pc[p] = "idle"
    /\ calls > 0
    /\ ~rwHeld
    /\ calls' = calls - 1
    /\ LET r == ToLogEntryCheck(eType, CommitInfo)
       IN IF r = "ok"
          THEN /\ logEntry' = [logEntry EXCEPT ![p] = ToLogEntryEntry(eType, CommitInfo)]
               /\ ret' = [ret EXCEPT ![p] = "logEntry"]
          ELSE /\ logEntry' = [logEntry EXCEPT ![p] = NilLogEntry]
               /\ ret' = [ret EXCEPT ![p] = r]
    /\ UNCHANGED <<mpVars, segVars, Sequence, log, rwVars, pc, be, tranId, autoCommit,
                   exIndice, applied, nextBlk, viewVars, nrestarts>>

\* ----------------------------------------------- SimpleGetOrCreateNextBlock
\* not safe: BlockSet is read without the lock; a block that has to be
\* created is created by SimpleCreateBlock, that is CreateBlock with
\* autoCommit set
SimpleGetOrCreateNextBlock(p, from) ==
    /\ pc[p] = "idle"
    /\ calls > 0
    /\ calls' = calls - 1
    /\ LET d == GetOrCreateNextBlock(BlockSet, from,
                                     HasMaxBlocks(IsSorted, BlockSet, SegmentMaxBlocks))
       IN IF d.create
          THEN /\ tranId' = [tranId EXCEPT ![p] = BlockTranId]
               /\ autoCommit' = [autoCommit EXCEPT ![p] = TRUE]
               /\ Sequence' = NextBlockId
               /\ be' = [be EXCEPT ![p] = NextBlockId]
               /\ pc' = [pc EXCEPT ![p] = "cb_lock"]
               /\ nextBlk' = [nextBlk EXCEPT ![p] = NilBlock]
               /\ UNCHANGED ret
          ELSE /\ nextBlk' = [nextBlk EXCEPT ![p] = d.blk]
               /\ ret' = [ret EXCEPT ![p] = IF d.blk = NilBlock THEN "nil block" ELSE "blk"]
               /\ UNCHANGED <<tranId, autoCommit, Sequence, be, pc>>
    /\ UNCHANGED <<mpVars, segVars, log, rwVars, exIndice, applied, logEntry, viewVars,
                   nrestarts>>

\* ------------------------------------------------- MySQL protocol calls
\* writePackets of a payload of the given length, between two rows
WritePackets(length, failAt) ==
    /\ mpCalls > 0
    /\ ~curRow.open
    /\ mpCalls' = mpCalls - 1
    /\ LET r == writePackets(mp, length, "data", failAt, 0)
       IN /\ mp' = r.mp
          /\ mpRet' = IF r.err THEN "err" ELSE "nil"
    /\ UNCHANGED <<segmentVars, curRow>>

OpenRow ==
    /\ mpCalls > 0
    /\ ~curRow.open
    /\ mpCalls' = mpCalls - 1
    /\ mp' = openRow(mp)
    /\ mpRet' = "nil"
    /\ curRow' = [open |-> TRUE, first |-> Len(mp.tcpConn) + 1, total |-> 0]
    /\ UNCHANGED segmentVars

\* append: fillPacket of n bytes of the row
FillPacket(n) ==
    /\ mpCalls > 0
    /\ curRow.open
    /\ mpCalls' = mpCalls - 1
    /\ LET f == fillPacket(mp, n)
       IN /\ mp' = f.mp
          /\ mpRet' = IF f.err THEN "err" ELSE "nil"
    /\ curRow' = [curRow EXCEPT !.total = @ + n]
    /\ UNCHANGED segmentVars

\* closeRow ends the row also when the budget of calls is used up
CloseRow ==
    /\ curRow.open
    /\ LET c == closeRow(mp)
       IN /\ mp' = c.mp
          /\ mpRet' = IF c.err THEN "err" ELSE "nil"
    /\ curRow' = [curRow EXCEPT !.open = FALSE]
    /\ UNCHANGED <<segmentVars, mpCalls>>

SendResultSet(cols, rows, badRow, rowErr, failAt) ==
    /\ mpCalls > 0
    /\ ~curRow.open
    /\ mpCalls' = mpCalls - 1
    /\ LET r == sendResultSet(mp, cols, rows, badRow, rowErr, failAt)
       IN /\ mp' = r.mp
          /\ mpRet' = IF r.err THEN "err" ELSE "nil"
    /\ UNCHANGED <<segmentVars, curRow>>

\* ---------------------------------------------------------- CommittedView
\* baseEntry := e.UseCommitted(id); nil is returned at once
CommittedView(p, id) ==
    /\ pc[p] = "idle"
    /\ calls > 0
    /\ calls' = calls - 1
    /\ viewId' = [viewId EXCEPT ![p] = id]
    /\ blks' = [blks EXCEPT ![p] = <<>>]
    /\ LET baseEntry == UseCommitted(CommitInfo, id)
       IN IF baseEntry = <<>>
          THEN /\ view' = [view EXCEPT ![p] = NilView]
               /\ ret' = [ret EXCEPT ![p] = "nil view"]
               /\ pc' = pc
          ELSE /\ view' = [view EXCEPT ![p] = newView(baseEntry)]
               /\ ret' = ret
               /\ pc' = [pc EXCEPT ![p] = "cv_rlock"]
    /\ UNCHANGED <<mpVars, segVars, Sequence, log, rwVars, be, tranId, autoCommit, upVars,
                   nrestarts>>

\* the block list is copied under the read lock, which is then released
CommittedViewRLocked(p) ==
    /\ pc[p] = "cv_copy"
    /\ blks' = [blks EXCEPT ![p] = CommittedViewCopy(BlockSet)]
    /\ rwReaders' = rwReaders - 1
    /\ pc' = [pc EXCEPT ![p] = "cv_resolve"]
    /\ UNCHANGED <<mpVars, segVars, Sequence, log, rwWriter, rwHeld, ret, be, tranId,
                   autoCommit, upVars, viewId, view, calls, nrestarts>>

\* the view of each copied block is resolved; the view is returned
CommittedViewResolve(p) ==
    /\ pc[p] = "cv_resolve"
    /\ view' = [view EXCEPT ![p].BlockSet =
                   CommittedViewBlocks(BlockSet, CommittedViewRange(blks[p], BlockSet),
                                       1, viewId[p], <<>>)]
    /\ blks' = [blks EXCEPT ![p] = <<>>]
    /\ ret' = [ret EXCEPT ![p] = "view"]
    /\ pc' = [pc EXCEPT ![p] = "idle"]
    /\ UNCHANGED <<mpVars, segVars, Sequence, log, rwVars, be, tranId, autoCommit, upVars,
                   viewId, calls, nrestarts>>

\* ---------------------------------------------------------------- restart
\* the process stops; the segment is unmarshalled (BaseEntry and BlockSet
\* are kept, IdIndex and the lock are not) and rebuild(table) is run
\* against a fresh Catalog
Restart ==
    /\ nrestarts < MaxRestarts
    /\ nrestarts' = nrestarts + 1
    /\ LET e == Unmarshal(Marshal(CommitInfo, BlockSet, IdIndex))
       IN /\ CommitInfo' = e.CommitInfo
          /\ BlockSet' = e.BlockSet
          /\ IdIndex' = rebuildIdIndex(e.BlockSet, 1, e.IdIndex)
          /\ Sequence' = rebuildSequence(e.BlockSet, 1, 0)
    /\ rwReaders' = 0
    /\ rwWriter' = 0
    /\ rwHeld' = FALSE
    /\ pc' = [p \in Procs |-> "idle"]
    /\ ret' = [p \in Procs |-> "none"]
    /\ be' = [p \in Procs |-> 0]
    /\ tranId' = [p \in Procs |-> 0]
    /\ autoCommit' = [p \in Procs |-> FALSE]
    /\ exIndice' = [p \in Procs |-> NilIndice]
    /\ applied' = [p \in Procs |-> NilIndex]
    /\ logEntry' = [p \in Procs |-> NilLogEntry]
    /\ nextBlk' = [p \in Procs |-> NilBlock]
    /\ viewId' = [p \in Procs |-> 0]
    /\ blks' = [p \in Procs |-> <<>>]
    /\ view' = [p \in Procs |-> NilView]
    /\ UNCHANGED <<mpVars, SegmentMaxBlocks, log, calls>>

\* ----------------------------------------------------------------- replay
\* the ids of the blocks of the ETCreateBlock entries of the log, in order
RECURSIVE ReplayedBlockIds(_, _)
ReplayedBlockIds(lg, i) ==
    IF i > Len(lg) THEN <<>>
    ELSE IF lg[i].Type = "ETCreateBlock"
         THEN <<lg[i].Id>> \o ReplayedBlockIds(lg, i + 1)
         ELSE ReplayedBlockIds(lg, i + 1)

\* the blocks a replay of the log adds to the segment, one per ETCreateBlock
\* entry in the order of the log, each as it was committed
ReplayBlockSet(lg, blocks) ==
    LET ids == ReplayedBlockIds(lg, 1)
    IN [i \in 1..Len(ids) |-> BlockOf(blocks, ids[i])]

\* the commit chain a replay of the log gives the segment: the UpgradeSorted
\* record is there if its ETUpgradeSegment entry is
ReplayCommitInfo(lg, chain) ==
    IF \E i \in 1..Len(lg) : lg[i].Type = "ETUpgradeSegment"
    THEN chain
    ELSE SubSeq(chain, 1, 1)

\* the process stops, the memory is lost and the log is kept; the segment
\* is replayed from the log and rebuilt against a fresh Catalog
Replay ==
    /\ nrestarts < MaxRestarts
    /\ nrestarts' = nrestarts + 1
    /\ CommitInfo' = ReplayCommitInfo(log, CommitInfo)
    /\ BlockSet' = ReplayBlockSet(log, BlockSet)
    /\ IdIndex' = rebuildIdIndex(ReplayBlockSet(log, BlockSet), 1, EmptyIdIndex)
    /\ Sequence' = rebuildSequence(ReplayBlockSet(log, BlockSet), 1, 0)
    /\ rwReaders' = 0
    /\ rwWriter' = 0
    /\ rwHeld' = FALSE
    /\ pc' = [p \in Procs |-> "idle"]
    /\ ret' = [p \in Procs |-> "none"]
    /\ be' = [p \in Procs |-> 0]
    /\ tranId' = [p \in Procs |-> 0]
    /\ autoCommit' = [p \in Procs |-> FALSE]
    /\ exIndice' = [p \in Procs |-> NilIndice]
    /\ applied' = [p \in Procs |-> NilIndex]
    /\ logEntry' = [p \in Procs |-> NilLogEntry]
    /\ nextBlk' = [p \in Procs |-> NilBlock]
    /\ viewId' = [p \in Procs |-> 0]
    /\ blks' = [p \in Procs |-> <<>>]
    /\ view' = [p \in Procs |-> NilView]
    /\ UNCHANGED <<mpVars, SegmentMaxBlocks, log, calls>>

\* ------------------------------------------------------------ Block rows
\* rows are appended to a block that is not full
AppendRows(i) ==
    /\ i \in 1..Len(BlockSet)
    /\ ~IsFull(BlockSet[i])
    /\ BlockSet' = [BlockSet EXCEPT ![i].Count = @ + 1]
    /\ UNCHANGED <<mpVars, SegmentMaxBlocks, CommitInfo, IdIndex, Sequence, log, rwVars,
                   procVars, upVars, viewVars, calls, nrestarts>>

\* the commit record of a block is given an applied index
SetAppliedIndex(i, v) ==
    /\ i \in 1..Len(BlockSet)
    /\ BlockSet[i].AppliedIndex = NilIndex
    /\ BlockSet' = [BlockSet EXCEPT ![i].AppliedIndex = v]
    /\ UNCHANGED <<mpVars, SegmentMaxBlocks, CommitInfo, IdIndex, Sequence, log, rwVars,
                   procVars, upVars, viewVars, calls, nrestarts>>

\* ------------------------------------------------------------------- Next
\* the calls a caller may start
Call(p) ==
    \/ \E a \in BOOLEAN : CreateBlock(p, BlockTranId, a)
    \/ \E t \in TranIds, a \in BOOLEAN : Upgrade(p, t, NilIndice, a)
    \/ Appendable(p)

\* the steps of a call that has started
Continue(p) ==
    \/ RLock(p)
    \/ Lock(p)
    \/ LockAcquire(p)
    \/ CreateBlockLocked(p)
    \/ CreateBlockCommit(p)
    \/ UpgradeRLocked(p)
    \/ UpgradeLocked(p)
    \/ AppendableRLocked(p)

Next ==
    \/ \E p \in Callers : Call(p)
    \/ \E p \in Callers : Continue(p)
    \/ \E i \in 1..Len(BlockSet) : AppendRows(i)
    \/ Restart

Spec == Init /\ [][Next]_vars

\* The same callers with no restart, every started call scheduled: a
\* goroutine that can take its next step eventually takes it.
LiveNext ==
    \/ \E p \in Callers : Call(p)
    \/ \E p \in Callers : Continue(p)
    \/ \E i \in 1..Len(BlockSet) : AppendRows(i)

LiveSpec == Init /\ [][LiveNext]_vars /\ \A p \in Callers : WF_vars(Continue(p))

\* A race of Upgrade calls on one segment of at most one block: caller 1
\* creates the block, every caller may call Upgrade.
RaceInit ==
    /\ InitSegment(MaxRaceCalls)
    /\ NoConnection
    /\ SegmentMaxBlocks = 1
    /\ CommitInfo = newSegmentEntry(1)

RaceContinue(p) ==
    \/ RLock(p)
    \/ Lock(p)
    \/ LockAcquire(p)
    \/ CreateBlockLocked(p)
    \/ CreateBlockCommit(p)
    \/ UpgradeRLocked(p)
    \/ UpgradeLocked(p)

RaceNext ==
    \/ \E a \in BOOLEAN : CreateBlock(1, BlockTranId, a)
    \/ \E p \in Procs, t \in TranIds, a \in BOOLEAN : Upgrade(p, t, NilIndice, a)
    \/ \E p \in Procs : RaceContinue(p)
    \/ \E i \in 1..Len(BlockSet) : AppendRows(i)

RaceSpec == RaceInit /\ [][RaceNext]_vars /\ \A p \in Procs : WF_vars(RaceContinue(p))

\* Views of the segment taken beside CreateBlock and Upgrade calls, the
\* blocks created under any tranId.
ViewInit ==
    /\ InitSegment(MaxViewCalls)
    /\ NoConnection
    /\ SegmentMaxBlocks = 1

ViewContinue(p) ==
    \/ RLock(p)
    \/ Lock(p)
    \/ LockAcquire(p)
    \/ CreateBlockLocked(p)
    \/ UpgradeRLocked(p)
    \/ UpgradeLocked(p)
    \/ CommittedViewRLocked(p)
    \/ CommittedViewResolve(p)

ViewNext ==
    \/ \E p \in Callers, t \in TranIds : CreateBlock(p, t, FALSE)
    \/ \E p \in Callers, t \in TranIds : Upgrade(p, t, NilIndice, FALSE)
    \/ \E p \in Callers, id \in ViewIds : CommittedView(p, id)
    \/ \E p \in Callers : ViewContinue(p)
    \/ \E i \in 1..Len(BlockSet) : AppendRows(i)

ViewSpec == ViewInit /\ [][ViewNext]_vars

\* Upgrade calls given every kind of exIndice, on blocks whose commit
\* records may carry an applied index.
IndexInit ==
    /\ InitSegment(MaxIndexCalls)
    /\ NoConnection
    /\ SegmentMaxBlocks \in 1..MaxSegmentMaxBlocks
    /\ CommitInfo = newSegmentEntry(1)

IndexContinue(p) ==
    \/ RLock(p)
    \/ Lock(p)
    \/ LockAcquire(p)
    \/ CreateBlockLocked(p)
    \/ UpgradeRLocked(p)
    \/ UpgradeLocked(p)
    \/ GetAppliedIndexRLocked(p)

IndexNext ==
    \/ \E p \in Callers : CreateBlock(p, BlockTranId, FALSE)
    \/ \E p \in Callers, t \in TranIds, ex \in ExIndice : Upgrade(p, t, ex, FALSE)
    \/ \E p \in Callers : GetAppliedIndex(p)
    \/ \E p \in Callers : IndexContinue(p)
    \/ \E i \in 1..Len(BlockSet) : AppendRows(i)
    \/ \E i \in 1..Len(BlockSet), v \in Indexes : SetAppliedIndex(i, v)

IndexSpec == IndexInit /\ [][IndexNext]_vars

\* Auto-committed CreateBlock and Upgrade calls on blocks whose commit
\* records may carry an applied index, a crash, and the replay of the log.
ReplayInit ==
    /\ InitSegment(MaxReplayCalls)
    /\ NoConnection
    /\ SegmentMaxBlocks \in 1..MaxSegmentMaxBlocks
    /\ CommitInfo = newSegmentEntry(1)

ReplayContinue(p) ==
    \/ RLock(p)
    \/ Lock(p)
    \/ LockAcquire(p)
    \/ CreateBlockLocked(p)
    \/ CreateBlockCommit(p)
    \/ UpgradeRLocked(p)
    \/ UpgradeLocked(p)

ReplayNext ==
    \/ \E p \in Callers : CreateBlock(p, BlockTranId, TRUE)
    \/ \E p \in Callers : Upgrade(p, MaxTranId, NilIndice, TRUE)
    \/ \E p \in Callers : ReplayContinue(p)
    \/ \E i \in 1..Len(BlockSet) : AppendRows(i)
    \/ \E i \in 1..Len(BlockSet), v \in Indexes : SetAppliedIndex(i, v)
    \/ Replay

ReplaySpec == ReplayInit /\ [][ReplayNext]_vars

\* Log entries of every type asked of a segment beside CreateBlock and
\* Upgrade calls.
LogEntryInit ==
    /\ InitSegment(MaxLogEntryCalls)
    /\ NoConnection
    /\ SegmentMaxBlocks = 1
    /\ CommitInfo = newSegmentEntry(1)

LogEntryContinue(p) ==
    \/ RLock(p)
    \/ Lock(p)
    \/ LockAcquire(p)
    \/ CreateBlockLocked(p)
    \/ UpgradeRLocked(p)
    \/ UpgradeLocked(p)

LogEntryNext ==
    \/ \E p \in Callers : CreateBlock(p, BlockTranId, FALSE)
    \/ \E p \in Callers : Upgrade(p, MaxTranId, NilIndice, FALSE)
    \/ \E p \in Callers, eType \in LogEntryTypes : ToLogEntry(p, eType)
    \/ \E p \in Callers : LogEntryContinue(p)
    \/ \E i \in 1..Len(BlockSet) : AppendRows(i)

LogEntrySpec == LogEntryInit /\ [][LogEntryNext]_vars

\* Blocks looked for and created by SimpleGetOrCreateNextBlock, beside
\* CreateBlock and Upgrade calls.
NextBlockInit ==
    /\ InitSegment(MaxNextBlockCalls)
    /\ NoConnection
    /\ SegmentMaxBlocks \in 1..MaxSegmentMaxBlocks
    /\ CommitInfo = newSegmentEntry(1)

NextBlockContinue(p) ==
    \/ RLock(p)
    \/ Lock(p)
    \/ LockAcquire(p)
    \/ CreateBlockLocked(p)
    \/ CreateBlockCommit(p)
    \/ UpgradeRLocked(p)
    \/ UpgradeLocked(p)

NextBlockNext ==
    \/ \E p \in Callers, a \in BOOLEAN : CreateBlock(p, BlockTranId, a)
    \/ \E p \in Callers, from \in {NilBlock} \cup BlockIds(BlockSet) :
          SimpleGetOrCreateNextBlock(p, from)
    \/ \E p \in Callers : Upgrade(p, MaxTranId, NilIndice, TRUE)
    \/ \E p \in Callers : NextBlockContinue(p)
    \/ \E i \in 1..Len(BlockSet) : AppendRows(i)

NextBlockSpec == NextBlockInit /\ [][NextBlockNext]_vars

\* Payloads and rows written on a connection whose sequence id is about
\* to wrap, or not.
PayloadLens == {0, 1, MaxPayloadSize - 1, MaxPayloadSize, MaxPayloadSize + 1,
                2 * MaxPayloadSize}
FillLens == {1, MaxPayloadSize - 1, MaxPayloadSize, MaxPayloadSize + 1}
SequenceIds == {Uint32(hi, lo) : hi \in {0, 2^24 - 1}, lo \in {0, 254}}

PacketInit ==
    /\ InitSegment(0)
    /\ SegmentMaxBlocks = 0
    /\ CommitInfo = newSegmentEntry(1)
    /\ \E seq \in SequenceIds : mp = NewMysqlClientProtocol(seq, Capabilities)
    /\ mpRet = "none"
    /\ curRow = NoRow
    /\ mpCalls = MaxPacketCalls

PacketNext ==
    \/ \E length \in PayloadLens, failAt \in 0..MaxFailAt : WritePackets(length, failAt)
    \/ OpenRow
    \/ \E n \in FillLens : FillPacket(n)
    \/ CloseRow

PacketSpec == PacketInit /\ [][PacketNext]_vars

\* Result sets sent to clients of every capability.
ResultSetInit ==
    /\ InitSegment(0)
    /\ SegmentMaxBlocks = 0
    /\ CommitInfo = newSegmentEntry(1)
    /\ \E capability \in SUBSET Capabilities :
          mp = NewMysqlClientProtocol(Uint32(0, 0), capability)
    /\ mpRet = "none"
    /\ curRow = NoRow
    /\ mpCalls = MaxResultSets

ResultSetNext ==
    \E cols \in 0..MaxColumns, rows \in 0..MaxRows :
        \E badRow \in 0..rows, rowErr \in {"make", "flush"}, failAt \in 0..MaxFailAt :
            SendResultSet(cols, rows, badRow, rowErr, failAt)

ResultSetSpec == ResultSetInit /\ [][ResultSetNext]_vars

\* ------------------------------------------------------ shared predicates
AllFull == \A i \in 1..Len(BlockSet) : IsFull(BlockSet[i])

HasNonFull == \E i \in 1..Len(BlockSet) : ~IsFull(BlockSet[i])

NoRestart == nrestarts' = nrestarts

\* caller p returns from Upgrade in this step
UpgradeReturns(p) ==
    /\ pc[p] \in {"up_check", "up_locked"}
    /\ pc'[p] = "idle"
    /\ NoRestart

\* ---------------------------------------------------------------- claims

\* C1: once the segment's last commit op is UpgradeSorted no block is ever
\* added to BlockSet: a CreateBlock on a Sorted segment fails and leaves
\* BlockSet and IdIndex as they were (stated for a segment whose schema
\* allows at least one block).
C1_SortedNoNewBlock ==
    [][(IsSorted /\ SegmentMaxBlocks >= 1)
          => (BlockIds(BlockSet') = BlockIds(BlockSet)
              /\ Len(BlockSet') = Len(BlockSet)
              /\ IdIndex' = IdIndex)]_vars

\* C2: an Upgrade (given a fresh tranId) that returns while the unsorted
\* segment holds a block that is not full returns UpgradeInfullSegmentErr
\* and appends no commit record, whatever CreateBlock and Upgrade calls run
\* beside it, a block added between its RUnlock and its Lock included.
C2_InfullNeverUpgraded ==
    [][\A p \in Procs :
         (/\ UpgradeReturns(p)
          /\ HasNonFull
          /\ ~IsSorted
          /\ SegmentMaxBlocks >= 1
          /\ tranId[p] > current.CommitId)
            => (ret'[p] = "UpgradeInfullSegmentErr" /\ CommitInfo' = CommitInfo)]_vars

\* a caller waiting for the segment's lock
WaitsForLock(p) == pc[p] \in {"up_rlock", "ap_rlock", "cb_lock", "up_lock", "cb_wait", "up_wait"}

\* callers inside an Upgrade call that has not yet entered Lock()
Racing == {p \in Procs : pc[p] \in {"up_rlock", "up_check", "up_lock"}}

FullUnsorted ==
    /\ ~IsSorted
    /\ Len(BlockSet) = SegmentMaxBlocks
    /\ AllFull

\* read locks held by no call in progress
OrphanedRLocks == rwReaders - Cardinality({q \in Procs : pc[q] \in {"up_check", "ap_check"}})

\* C3: when Upgrade calls (three of them, given fresh tranIds) race on the
\* same full, unsorted segment whose lock is free, every one of them
\* returns: nil for the one that appends the UpgradeSorted record,
\* UpgradeNotNeededErr for every other one.
C3_RacingUpgradesReturn ==
    \A p \in Procs :
        (/\ p \in Racing
         /\ Cardinality(Racing) >= 3
         /\ FullUnsorted
         /\ OrphanedRLocks = 0
         /\ \A q \in Racing : tranId[q] > CommitInfo[1].CommitId)
            ~> (pc[p] = "idle" /\ ret[p] \in {"nil", "UpgradeNotNeededErr"})

\* C4: an Upgrade (given a fresh tranId) that returns on a segment holding
\* exactly SegmentMaxBlocks blocks, all full, with last op Create returns nil
\* and has appended one UpgradeSorted record; an Upgrade that returns on the
\* segment once it is sorted returns UpgradeNotNeededErr and leaves the
\* commit chain as it was.
C4_UpgradeTwice ==
    [][\A p \in Procs :
         UpgradeReturns(p) =>
            /\ (FullUnsorted /\ tranId[p] > current.CommitId)
                  => /\ ret'[p] = "nil"
                     /\ CommitInfo' = Append(CommitInfo,
                                             newCommitInfo(tranId[p], "OpUpgradeSorted"))
            /\ IsSorted
                  => /\ ret'[p] = "UpgradeNotNeededErr"
                     /\ CommitInfo' = CommitInfo]_vars

\* a second Upgrade has returned on a segment that was full and got sorted
C4_Witness ==
    \E p \in Procs :
        /\ pc[p] = "idle"
        /\ ret[p] = "UpgradeNotNeededErr"
        /\ IsSorted
        /\ Len(CommitInfo) = 2
        /\ SegmentMaxBlocks >= 1
        /\ Len(BlockSet) = SegmentMaxBlocks
        /\ AllFull

\* C5: once an Upgrade has returned UpgradeNotNeededErr or
\* UpgradeInfullSegmentErr, every later call that needs the segment's lock
\* gets it and returns.
C5_RetryNeverBlocks ==
    \A p \in Procs :
        (/\ WaitsForLock(p)
         /\ SegmentMaxBlocks >= 1
         /\ \E q \in Procs : ret[q] \in {"UpgradeNotNeededErr", "UpgradeInfullSegmentErr"})
            ~> (pc[p] = "idle")

\* C6: an Upgrade that checks an unsorted segment whose block count is not
\* SegmentMaxBlocks returns UpgradeInfullSegmentErr, and the commit chain,
\* BlockSet and IdIndex are after the call what they were before it.
C6_InfullLeavesSegment ==
    [][\A p \in Procs :
         (/\ pc[p] = "up_check"
          /\ pc'[p] # "up_check"
          /\ NoRestart
          /\ ~IsSorted
          /\ Len(BlockSet) # SegmentMaxBlocks)
            => /\ pc'[p] = "idle"
               /\ ret'[p] = "UpgradeInfullSegmentErr"
               /\ CommitInfo' = CommitInfo
               /\ BlockSet' = BlockSet
               /\ IdIndex' = IdIndex]_vars

\* one full block out of two: Upgrade has returned UpgradeInfullSegmentErr
C6_Witness ==
    \E p \in Procs :
        /\ pc[p] = "idle"
        /\ ret[p] = "UpgradeInfullSegmentErr"
        /\ ~IsSorted
        /\ SegmentMaxBlocks = 2
        /\ Len(BlockSet) = 1
        /\ AllFull

SortedRecords == {i \in 1..Len(CommitInfo) : CommitInfo[i].Op = "OpUpgradeSorted"}

\* C7: the commit chain never holds more than one UpgradeSorted record, and
\* a segment that is Sorted never has last op Create again.
C7_SortedOnce ==
    /\ [](Cardinality(SortedRecords) <= 1)
    /\ [][IsSorted => IsSorted']_vars

\* a later Upgrade has found the segment sorted
C7_Witness ==
    \E p \in Procs :
        /\ ret[p] = "UpgradeNotNeededErr"
        /\ IsSorted
        /\ SegmentMaxBlocks >= 1

\* C8: as long as no more than SegmentMaxBlocks blocks have been created,
\* HasMaxBlocks() is true exactly when the block count is SegmentMaxBlocks,
\* and once true it stays true, after Upgrade too.
C8_HasMaxBlocksMonotonic ==
    /\ [](Len(BlockSet) <= SegmentMaxBlocks
            => (HasMaxBlocks(IsSorted, BlockSet, SegmentMaxBlocks)
                  <=> Len(BlockSet) = SegmentMaxBlocks))
    /\ [][(/\ HasMaxBlocks(IsSorted, BlockSet, SegmentMaxBlocks)
           /\ Len(BlockSet') <= SegmentMaxBlocks)
             => HasMaxBlocks(IsSorted', BlockSet', SegmentMaxBlocks')]_vars

\* the count has reached the maximum of two blocks and the segment is sorted
C8_Witness ==
    /\ SegmentMaxBlocks = 2
    /\ Len(BlockSet) = 2
    /\ IsSorted
    /\ HasMaxBlocks(IsSorted, BlockSet, SegmentMaxBlocks)

LastBlockFull == Len(BlockSet) > 0 /\ IsFull(BlockSet[Len(BlockSet)])

\* C9: in every segment state Appendable() returns a boolean: false exactly
\* when HasMaxBlocks() is true and the last block is full, true otherwise.
C9_AppendableTotal ==
    [][\A p \in Procs :
         (pc[p] = "ap_check" /\ pc'[p] = "idle" /\ NoRestart)
            => ret'[p] = IF HasMaxBlocks(IsSorted, BlockSet, SegmentMaxBlocks)
                            /\ LastBlockFull
                         THEN "false" ELSE "true"]_vars

\* C10: IdIndex is consistent with BlockSet: its keys are the ids of the
\* blocks of BlockSet, and it maps the id of the block at each position to
\* that position.
C10_IdIndexConsistent ==
    /\ DOMAIN IdIndex = BlockIds(BlockSet)
    /\ \A i \in 1..Len(BlockSet) : IdIndex[BlockSet[i].Id] = i - 1

\* a rebuilt segment whose blocks were added out of id order
C10_Witness ==
    /\ nrestarts = 1
    /\ Len(BlockSet) >= 2
    /\ BlockSet[1].Id > BlockSet[2].Id

\* C11: in every reachable state the commit chain is sorted by CommitId,
\* strictly increasing from each record to the next (oldest first), whatever
\* tranIds the segment was created with and Upgrade is given.
C11_ChainSorted ==
    \A i \in 1..(Len(CommitInfo) - 1) : CommitInfo[i].CommitId < CommitInfo[i + 1].CommitId

\* a segment created under tranId 2 and upgraded, an Upgrade given a tranId
\* that is not above the last CommitId having been refused
C11_Witness ==
    /\ Len(CommitInfo) = 2
    /\ CommitInfo[1].CommitId = 2
    /\ \E p \in Procs : ret[p] = "panic: InvariantViolation"

\* C12: an Upgrade that reaches onNewCommit with a tranId that is not above
\* the chain's last CommitId fails with InvariantViolation: the chain is left
\* as it was and nothing is handed to the Catalog.
C12_StaleCommitRefused ==
    [][\A p \in Procs :
         (/\ pc[p] = "up_locked"
          /\ pc'[p] = "idle"
          /\ NoRestart
          /\ current.Op = "OpCreate"
          /\ ~UpgradeIndicePanics(exIndice[p])
          /\ tranId[p] <= current.CommitId)
            => /\ ret'[p] = "panic: InvariantViolation"
               /\ CommitInfo' = CommitInfo
               /\ log' = log]_vars

\* an Upgrade given the creation tranId itself has been refused
C12_Witness ==
    \E p \in Procs :
        /\ pc[p] = "idle"
        /\ ret[p] = "panic: InvariantViolation"
        /\ Len(CommitInfo) = 1
        /\ CommitInfo[1].CommitId = 2

\* C13: the commit chain is append-only: every step leaves the records it
\* holds where they are and as they are, and adds at most one record, at the
\* newest end.
C13_ChainAppendOnly ==
    [][/\ Len(CommitInfo') \in {Len(CommitInfo), Len(CommitInfo) + 1}
       /\ SubSeq(CommitInfo', 1, Len(CommitInfo)) = CommitInfo]_vars

\* Upgrade has added the UpgradeSorted record after the Create record
C13_Witness ==
    /\ Len(CommitInfo) = 2
    /\ CommitInfo[1].Op = "OpCreate"
    /\ CommitInfo[2].Op = "OpUpgradeSorted"
    /\ CommitInfo[2].CommitId = MaxTranId

\* the blocks of a list whose creation commit id is not above id, in order
BlocksAsOf(blocks, id) == SelectSeq(blocks, LAMBDA b : b.CommitId <= id)

\* C14: a CommittedView(id) that returns a view, id being at or after the
\* segment's creation commit id, returns in its BlockSet exactly the blocks
\* of the segment (as listed when the block list was copied) whose creation
\* commit id is <= id, in the order they have in the segment's BlockSet, and
\* no block created after id.
C14_ViewBlocksAsOf ==
    [][\A p \in Procs :
         (CommittedViewResolve(p) /\ viewId[p] >= CommitInfo[1].CommitId)
            => /\ ret'[p] = "view"
               /\ view'[p].BlockSet =
                      BlocksAsOf(SubSeq(BlockSet, 1, Len(blks[p])), viewId[p])
               /\ Len(blks[p]) = Len(BlockSet)
                      => view'[p].BlockSet = BlocksAsOf(BlockSet, viewId[p])
               /\ \A i \in 1..Len(view'[p].BlockSet) :
                      view'[p].BlockSet[i].CommitId <= viewId[p]]_vars

\* of two blocks, the view holds the second only: the first was created
\* after the view's commit id, the second at it
C14_Witness ==
    \E p \in Procs :
        /\ pc[p] = "idle"
        /\ ret[p] = "view"
        /\ Len(BlockSet) = 2
        /\ BlockSet[1].CommitId > viewId[p]
        /\ BlockSet[2].CommitId = viewId[p]
        /\ Len(view[p].BlockSet) = 1
        /\ view[p].BlockSet[1].Id = BlockSet[2].Id

\* C15: CommittedView(id) with id below the segment's creation commit id
\* returns nil at once, whatever blocks the segment holds.
C15_ViewBeforeCreationNil ==
    [][\A p \in Procs, id \in ViewIds :
         (CommittedView(p, id) /\ id < CommitInfo[1].CommitId)
            => /\ pc'[p] = "idle"
               /\ ret'[p] = "nil view"
               /\ view'[p] = NilView]_vars

\* nil for a segment created at 2 and asked for 1, although it holds two
\* blocks, the first created at 1
C15_Witness ==
    \E p \in Procs :
        /\ pc[p] = "idle"
        /\ ret[p] = "nil view"
        /\ viewId[p] = 1
        /\ CommitInfo[1].CommitId = 2
        /\ Len(BlockSet) = 2
        /\ BlockSet[1].CommitId = 1

\* the position in the chain of the newest record whose CommitId is <= id
LastAsOf(chain, id) ==
    CHOOSE i \in 1..Len(chain) :
        /\ chain[i].CommitId <= id
        /\ \A j \in 1..Len(chain) : chain[j].CommitId <= id => j <= i

\* C16: the segment's own entry in the view of CommittedView(id), id at or
\* after the creation commit id, is the last commit record with CommitId <=
\* id: op Create for an id below the upgrade's commit id, even once the
\* segment is sorted, op UpgradeSorted for an id at or after it; the entry
\* is not changed while the view is built.
C16_ViewEntryAsOf ==
    /\ [][\A p \in Procs, id \in ViewIds :
            (CommittedView(p, id) /\ id >= CommitInfo[1].CommitId)
               => /\ view'[p].BaseEntry = <<CommitInfo[LastAsOf(CommitInfo, id)]>>
                  /\ IsSorted =>
                        view'[p].BaseEntry[1].Op =
                           IF id < current.CommitId THEN "OpCreate"
                           ELSE "OpUpgradeSorted"]_vars
    /\ [][\A p \in Procs :
            pc[p] \in {"cv_rlock", "cv_copy", "cv_resolve"}
               => view'[p].BaseEntry = view[p].BaseEntry]_vars

\* one caller has created and filled a block, upgraded the segment and then
\* taken a view below the upgrade's commit id: the view's op is Create
C16_Witness ==
    \E p \in Procs :
        /\ pc[p] = "idle"
        /\ ret[p] = "view"
        /\ \A q \in Procs \ {p} : pc[q] = "idle" /\ ret[q] = "none"
        /\ IsSorted
        /\ viewId[p] < current.CommitId
        /\ view[p].BaseEntry[1].Op = "OpCreate"

\* C17: CommittedView holds the segment's read lock from its RLock to the
\* end of the copy of the block list only: the copy step gives the lock
\* back, the step that resolves the block views touches no lock, and the
\* view holds none but copied blocks, so blocks added by a CreateBlock that
\* took the exclusive lock in between are not in it.
C17_ViewLockOnlyForCopy ==
    [][\A p \in Procs :
         /\ (RLock(p) /\ pc[p] = "cv_rlock") => rwReaders' = rwReaders + 1
         /\ CommittedViewRLocked(p)
               => /\ rwReaders' = rwReaders - 1
                  /\ blks'[p] = [i \in 1..Len(BlockSet) |-> BlockSet[i].Id]
         /\ CommittedViewResolve(p)
               => /\ UNCHANGED rwVars
                  /\ BlockIds(view'[p].BlockSet) \subseteq {blks[p][i] : i \in 1..Len(blks[p])}]_vars

\* a block was added under the exclusive lock while a view is being resolved
C17_Witness ==
    \E p \in Procs :
        /\ pc[p] = "cv_resolve"
        /\ Len(BlockSet) > Len(blks[p])
        /\ BlockSet[Len(BlockSet)].CommitId <= viewId[p]

\* the entries of a type handed to the Catalog for an id
Commits(type, id) == {i \in 1..Len(log) : log[i].Type = type /\ log[i].Id = id}

\* C18: a CreateBlock call adds its block to the segment and hands nothing
\* to the Catalog while doing so; with autoCommit it then hands one
\* ETCreateBlock commit for that block to the Catalog and returns, without
\* autoCommit it returns at once; no block ever has two ETCreateBlock
\* commits, and none is handed over outside such a call.
C18_CreateBlockCommitsOnce ==
    /\ [](\A id \in 1..Sequence : Cardinality(Commits("ETCreateBlock", id)) <= 1)
    /\ [][\A p \in Procs :
            /\ CreateBlockLocked(p)
                  => /\ be[p] \in BlockIds(BlockSet')
                     /\ log' = log
                     /\ pc'[p] = IF autoCommit[p] THEN "cb_commit" ELSE "idle"
            /\ CreateBlockCommit(p)
                  => /\ autoCommit[p]
                     /\ be[p] \in BlockIds(BlockSet)
                     /\ log' = Append(log, [Type |-> "ETCreateBlock", Id |-> be[p]])
                     /\ pc'[p] = "idle"]_vars
    /\ [][(Len(log') > Len(log) /\ log'[Len(log')].Type = "ETCreateBlock")
            => \E p \in Procs : CreateBlockCommit(p)]_vars

\* two finished CreateBlock calls, one with autoCommit and one without
C18_Witness ==
    /\ nrestarts = 0
    /\ calls = MaxCalls - 2
    /\ \A p \in Procs : pc[p] = "idle"
    /\ Len(BlockSet) = 2
    /\ Len(log) = 1
    /\ log[1] = [Type |-> "ETCreateBlock", Id |-> BlockSet[2].Id]

\* C19: an Upgrade that returns nil with autoCommit hands exactly one
\* ETUpgradeSegment commit to the Catalog, in the section run under the
\* segment's exclusive lock and together with the UpgradeSorted record; an
\* Upgrade that returns anything else, or has autoCommit = false, hands
\* nothing to the Catalog; no ETUpgradeSegment commit comes from elsewhere.
C19_UpgradeCommitsOnce ==
    /\ [][\A p \in Procs :
            UpgradeReturns(p) =>
               IF ret'[p] = "nil" /\ autoCommit[p]
               THEN /\ pc[p] = "up_locked"
                    /\ rwHeld
                    /\ rwWriter = p
                    /\ Len(CommitInfo') = Len(CommitInfo) + 1
                    /\ CommitInfo'[Len(CommitInfo')].Op = "OpUpgradeSorted"
                    /\ CommitInfo'[Len(CommitInfo')].TranId = tranId[p]
                    /\ log' = Append(log, [Type |-> "ETUpgradeSegment", Id |-> 0])
               ELSE log' = log]_vars
    /\ [][(Len(log') > Len(log) /\ log'[Len(log')].Type = "ETUpgradeSegment")
            => \E p \in Procs : UpgradeLocked(p) /\ ret'[p] = "nil" /\ autoCommit[p]]_vars

\* a segment of one full block, created without autoCommit, upgraded with
\* autoCommit: one ETUpgradeSegment commit
C19_Witness ==
    /\ SegmentMaxBlocks = 1
    /\ Len(BlockSet) = 1
    /\ IsSorted
    /\ Len(log) = 1
    /\ log[1].Type = "ETUpgradeSegment"
    /\ calls = 0

\* the applied index of the newest block that has one (NilIndex: no block)
AggregateAppliedIndex(blocks) ==
    IF \A i \in 1..Len(blocks) : blocks[i].AppliedIndex = NilIndex
    THEN NilIndex
    ELSE blocks[CHOOSE i \in 1..Len(blocks) :
                    /\ blocks[i].AppliedIndex # NilIndex
                    /\ \A j \in (i + 1)..Len(blocks) : blocks[j].AppliedIndex = NilIndex
               ].AppliedIndex

\* C20: in an Upgrade that returns nil, the new commit record has, when
\* exIndice is given, the first index as ExternalIndex, the second as
\* PrevIndex if there is one (nil otherwise) and no AppliedIndex; when
\* exIndice is nil, it has no ExternalIndex and no PrevIndex, and as
\* AppliedIndex the applied index of the newest block that has one, nil if
\* no block has one.
C20_UpgradeIndexes ==
    [][\A p \in Procs :
         (UpgradeLocked(p) /\ ret'[p] = "nil") =>
            LET ex == exIndice[p]
                r == CommitInfo'[Len(CommitInfo')]
            IN /\ Len(CommitInfo') = Len(CommitInfo) + 1
               /\ IF ex.IsNil
                  THEN /\ r.AppliedIndex = AggregateAppliedIndex(BlockSet)
                       /\ r.ExternalIndex = NilIndex
                       /\ r.PrevIndex = NilIndex
                  ELSE /\ Len(ex.Elems) >= 1
                       /\ r.ExternalIndex = ex.Elems[1]
                       /\ r.PrevIndex = IF Len(ex.Elems) >= 2 THEN ex.Elems[2]
                                         ELSE NilIndex
                       /\ r.AppliedIndex = NilIndex]_vars

\* upgraded with no exIndice: the record carries the applied index of the
\* older block, the newer block having none
C20_Witness ==
    /\ Len(CommitInfo) = 2
    /\ Len(BlockSet) = 2
    /\ BlockSet[2].AppliedIndex = NilIndex
    /\ BlockSet[1].AppliedIndex = MaxIndex
    /\ CommitInfo[2].AppliedIndex = MaxIndex

\* C21: the aggregate applied index of the segment (calcAppliedIndex, and
\* what GetAppliedIndex returns for a segment that is not sorted) is the
\* applied index of the newest block of BlockSet that has one; it is absent
\* exactly when no block has an applied index.
C21_AggregateAppliedIndex ==
    /\ [](/\ calcAppliedIndex(BlockSet) = AggregateAppliedIndex(BlockSet)
          /\ calcAppliedIndex(BlockSet) = NilIndex
                <=> \A i \in 1..Len(BlockSet) : BlockSet[i].AppliedIndex = NilIndex)
    /\ [][\A p \in Procs :
            (GetAppliedIndexRLocked(p) /\ ~IsSorted)
               => applied'[p] = AggregateAppliedIndex(BlockSet)]_vars

\* GetAppliedIndex has returned the applied index of the newer of two
\* blocks, the older block holding another one
C21_Witness ==
    \E p \in Procs :
        /\ pc[p] = "idle"
        /\ ret[p] = "index"
        /\ ~IsSorted
        /\ Len(BlockSet) = 2
        /\ BlockSet[1].AppliedIndex = MaxIndex
        /\ BlockSet[2].AppliedIndex = 1
        /\ applied[p] = 1

\* C22: after the rebuild of a restarted segment the id sequence is not
\* below any block id of the segment, and the id a later CreateBlock
\* allocates is greater than every block id present in the segment.
C22_RebuildNoIdReuse ==
    /\ [](\A i \in 1..Len(BlockSet) : BlockSet[i].Id <= Sequence)
    /\ [][\A p \in Procs :
            (pc[p] = "idle" /\ pc'[p] = "cb_lock")
               => /\ be'[p] \notin BlockIds(BlockSet)
                  /\ \A i \in 1..Len(BlockSet) : be'[p] > BlockSet[i].Id]_vars

\* a CreateBlock started after the restart of a segment of two blocks has
\* allocated the id after theirs
C22_Witness ==
    \E p \in Procs :
        /\ nrestarts = 1
        /\ pc[p] = "cb_lock"
        /\ Len(BlockSet) = 2
        /\ be[p] = 3

AllCommitted ==
    /\ \A p \in Procs : pc[p] = "idle"
    /\ \A i \in 1..Len(BlockSet) : Commits("ETCreateBlock", BlockSet[i].Id) # {}
    /\ IsSorted => \E i \in 1..Len(log) : log[i].Type = "ETUpgradeSegment"

\* C24: after a crash and the replay of the log, the aggregate applied
\* index of a segment all of whose changes were committed (calcAppliedIndex,
\* and what GetAppliedIndex returns) is what it was before the crash.
C24_ReplayKeepsAppliedIndex ==
    [][(Replay /\ AllCommitted)
         => /\ calcAppliedIndex(BlockSet') = calcAppliedIndex(BlockSet)
            /\ GetAppliedIndexResult(CommitInfo', BlockSet')
                  = GetAppliedIndexResult(CommitInfo, BlockSet)]_vars

C26_ToLogEntryAborts ==
    [][\A p \in Procs, eType \in LogEntryTypes :
         ToLogEntry(p, eType) =>
            /\ (eType = "ETDropSegment" /\ ~IsSoftDeletedLocked(CommitInfo))
                  => /\ ret'[p] = "panic: logic error"
                     /\ logEntry'[p] = NilLogEntry
            /\ eType \notin {"ETCreateSegment", "ETUpgradeSegment", "ETDropSegment"}
                  => /\ ret'[p] = "panic: not supported"
                     /\ logEntry'[p] = NilLogEntry
            /\ eType \in {"ETCreateSegment", "ETUpgradeSegment"}
                  => /\ ret'[p] = "logEntry"
                     /\ logEntry'[p] = [Type |-> eType, BaseEntry |-> CommitInfo]]_vars

\* an entry of a sorted segment was produced, then ETDropSegment was refused
C26_Witness ==
    \E p \in Procs :
        /\ ret[p] = "panic: logic error"
        /\ logEntry[p] = NilLogEntry
        /\ IsSorted
        /\ \E q \in Procs : logEntry[q].Type = "ETUpgradeSegment"


\* the packets a step adds to the connection
NewPackets == SubSeq(mp'.tcpConn, Len(mp.tcpConn) + 1, Len(mp'.tcpConn))

\* C27: a payload of length L >= 1 that writePackets sends without error
\* goes out as packets of exactly MaxPayloadSize bytes followed by a last
\* packet of less than MaxPayloadSize bytes, which is a zero-length packet
\* when L is a multiple of MaxPayloadSize; the packets carry the payload's
\* bytes in order, each byte once.
C27_WritePacketsFraming ==
    [][\A length \in PayloadLens :
         (length >= 1 /\ WritePackets(length, 0)) =>
            LET pkts == NewPackets
                n == Len(pkts)
            IN /\ n >= 1
               /\ \A k \in 1..(n - 1) : pkts[k].Len = MaxPayloadSize
               /\ pkts[n].Len < MaxPayloadSize
               /\ (length % MaxPayloadSize = 0) => pkts[n].Len = 0
               /\ pkts[1].From = 0
               /\ \A k \in 1..(n - 1) : pkts[k + 1].From = pkts[k].From + pkts[k].Len
               /\ pkts[n].From + pkts[n].Len = length]_vars

\* a payload of twice MaxPayloadSize was sent: two full packets and a
\* zero-length one
C27_Witness ==
    /\ mpRet = "nil"
    /\ \E k \in 1..Len(mp.tcpConn) :
          /\ k + 2 <= Len(mp.tcpConn)
          /\ mp.tcpConn[k].Kind = "data" /\ mp.tcpConn[k].From = 0
          /\ mp.tcpConn[k].Len = MaxPayloadSize
          /\ mp.tcpConn[k + 1].Len = MaxPayloadSize
          /\ mp.tcpConn[k + 2].Len = 0
          /\ mp.tcpConn[k + 2].From = 2 * MaxPayloadSize

\* C28: every packet sent, zero-length packets included, carries the
\* sequence id that follows the one of the packet before it, modulo 256:
\* the k-th packet a call sends carries (s + k - 1) mod 256 where s is
\* the sequence id before the call, and the call leaves the sequence id
\* at (s + the number of packets it sent) mod 256.
C28_SequenceIdWraps ==
    [][LET old == Len(mp.tcpConn)
           new == Len(mp'.tcpConn)
       IN /\ new >= old
          /\ SubSeq(mp'.tcpConn, 1, old) = mp.tcpConn
          /\ \A k \in (old + 1)..new :
                mp'.tcpConn[k].Seq = (mp.sequenceId.lo + (k - old - 1)) % 256
          /\ mp'.sequenceId.lo = (mp.sequenceId.lo + (new - old)) % 256]_vars

\* the packet with sequence id 255 was followed by one with sequence id 0,
\* and a zero-length packet of a row was numbered as well
C28_Witness ==
    /\ \E k \in 1..Len(mp.tcpConn) :
          /\ k < Len(mp.tcpConn)
          /\ mp.tcpConn[k].Seq = 255
          /\ mp.tcpConn[k + 1].Seq = 0
    /\ \E k \in 1..Len(mp.tcpConn) :
          mp.tcpConn[k].Len = 0 /\ mp.tcpConn[k].Kind = "row"

\* C29: the packets of a row of at least one byte, from openRow to
\* closeRow, are packets of exactly MaxPayloadSize bytes followed by one
\* last packet of less than MaxPayloadSize bytes; a zero-length packet is
\* only ever the last packet of a row whose length is a multiple of
\* MaxPayloadSize.
C29_RowFraming ==
    [][(CloseRow /\ curRow.total >= 1) =>
          LET pkts == SubSeq(mp'.tcpConn, curRow.first, Len(mp'.tcpConn))
              n == Len(pkts)
          IN /\ n >= 1
             /\ \A k \in 1..(n - 1) : pkts[k].Len = MaxPayloadSize
             /\ pkts[n].Len < MaxPayloadSize
             /\ \A k \in 1..n :
                   pkts[k].Len = 0 => /\ k = n
                                      /\ curRow.total % MaxPayloadSize = 0]_vars

\* the sequence of the kinds of the packets
Kinds(pkts) == [k \in 1..Len(pkts) |-> pkts[k].Kind]

\* what a result set of cols columns and rows rows is sent as
ExpectedKinds(cols, rows, capability) ==
    <<"count">> \o [i \in 1..cols |-> "column"]
        \o (IF "CLIENT_DEPRECATE_EOF" \in capability THEN <<>> ELSE <<"EOF">>)
        \o [i \in 1..rows |-> "row"]
        \o (IF "CLIENT_DEPRECATE_EOF" \in capability THEN <<"OKWithEof">> ELSE <<"EOF">>)

IsPrefix(s, t) == Len(s) <= Len(t) /\ SubSeq(t, 1, Len(s)) = s

\* C30: sendResultSet sends the column count, one column definition per
\* column, an EOF packet unless CLIENT_DEPRECATE_EOF is set, the rows in
\* the order of their indexes, and one terminator, an OK packet with the
\* EOF header if CLIENT_DEPRECATE_EOF is set and an EOF packet otherwise;
\* when a step fails the packets sent are those of the steps before it
\* (and the ERR packet of a row that could not be made) and nothing later.
C30_ResultSetOrder ==
    [][\A cols \in 0..MaxColumns, rows \in 0..MaxRows :
        \A badRow \in 0..rows, rowErr \in {"make", "flush"}, failAt \in 0..MaxFailAt :
          SendResultSet(cols, rows, badRow, rowErr, failAt) =>
             LET pkts == NewPackets
                 kinds == Kinds(pkts)
                 exp == ExpectedKinds(cols, rows, mp.capability)
                 firstRow == Len(exp) - rows
             IN /\ mpRet' = "nil" =>
                     /\ kinds = exp
                     /\ \A r \in 0..(rows - 1) : pkts[firstRow + r].Len = RowLen(r)
                /\ mpRet' = "err" =>
                     \/ IsPrefix(kinds, exp) /\ kinds # exp
                     \/ /\ Len(kinds) >= 1
                        /\ kinds[Len(kinds)] = "ERR"
                        /\ IsPrefix(SubSeq(kinds, 1, Len(kinds) - 1), exp)
                        /\ Len(kinds) - 1 < Len(exp)]_vars

\* C31: every Upgrade call gives back the locks it took before it returns:
\* on each return made under the read lock the count of read-lock holders
\* goes down by the one the call took and the write lock is untouched; on
\* each return made under the exclusive lock the write lock is free again
\* and the count of read-lock holders is untouched (stated for a segment
\* whose schema allows at least one block).
C31_UpgradeReleasesLocks ==
    [][\A p \in Procs :
         (UpgradeReturns(p) /\ SegmentMaxBlocks >= 1) =>
            IF pc[p] = "up_check"
            THEN /\ rwReaders' = rwReaders - 1
                 /\ rwWriter' = rwWriter
                 /\ rwHeld' = rwHeld
            ELSE /\ rwReaders' = rwReaders
                 /\ rwWriter' = 0
                 /\ rwHeld' = FALSE]_vars

\* C32: a segment whose last commit op is UpgradeSorted holds exactly
\* SegmentMaxBlocks blocks and every one of them is full, in every state
\* CreateBlock and Upgrade calls can reach (stated for a segment whose
\* schema allows at least one block).
C32_SortedIsFull ==
    (IsSorted /\ SegmentMaxBlocks >= 1)
        => (Len(BlockSet) = SegmentMaxBlocks /\ AllFull)

\* C33: the block ids in BlockSet grow strictly with the position, for
\* every interleaving of CreateBlock calls.
C33_BlockSetInIdOrder ==
    \A i, j \in 1..Len(BlockSet) : i < j => BlockSet[i].Id < BlockSet[j].Id

\* the position of the block of the given id in BlockSet
PositionOf(blocks, id) == CHOOSE i \in 1..Len(blocks) : blocks[i].Id = id

\* C34: the ETCreateBlock entries of auto-committed CreateBlock calls are
\* in the log in the order of their blocks in BlockSet.
C34_CommitOrderIsBlockOrder ==
    \A i, j \in 1..Len(log) :
        (/\ i < j
         /\ log[i].Type = "ETCreateBlock"
         /\ log[j].Type = "ETCreateBlock"
         /\ log[i].Id \in BlockIds(BlockSet)
         /\ log[j].Id \in BlockIds(BlockSet))
            => PositionOf(BlockSet, log[i].Id) < PositionOf(BlockSet, log[j].Id)

\* C36: an Upgrade (given a fresh tranId) that returns from under the
\* exclusive lock on a full, unsorted segment returns nil or one of its
\* two errors, whatever exIndice it was given, a list of length zero
\* included; it does not panic.
C36_UpgradeNeverAborts ==
    [][\A p \in Procs :
         (/\ UpgradeReturns(p)
          /\ pc[p] = "up_locked"
          /\ FullUnsorted
          /\ tranId[p] > current.CommitId)
            => ret'[p] \in {"nil", "UpgradeNotNeededErr", "UpgradeInfullSegmentErr"}]_vars

\* caller p takes a step of an Upgrade call
UpgradeStep(p) ==
    /\ NoRestart
    /\ pc'[p] # pc[p]
    /\ \/ pc[p] = "idle" /\ pc'[p] = "up_rlock"
       \/ pc[p] \in {"up_rlock", "up_check", "up_lock", "up_wait", "up_locked"}

\* caller p takes a step of a CreateBlock call
CreateBlockStep(p) ==
    /\ NoRestart
    /\ pc'[p] # pc[p]
    /\ \/ pc[p] = "idle" /\ pc'[p] = "cb_lock"
       \/ pc[p] \in {"cb_lock", "cb_wait", "cb_locked", "cb_commit"}

\* C37: no step of an Upgrade call, whether the call succeeds or fails,
\* changes BlockSet, IdIndex or a block; no step of a CreateBlock call
\* changes the segment's commit chain, and the only change it makes to
\* BlockSet is to append the new block at the end: every block that was
\* there keeps its position, in BlockSet and in IdIndex.
C37_FrameConditions ==
    [][\A p \in Procs :
         /\ UpgradeStep(p) => (BlockSet' = BlockSet /\ IdIndex' = IdIndex)
         /\ CreateBlockStep(p) =>
               /\ CommitInfo' = CommitInfo
               /\ Len(BlockSet') \in {Len(BlockSet), Len(BlockSet) + 1}
               /\ SubSeq(BlockSet', 1, Len(BlockSet)) = BlockSet
               /\ \A id \in DOMAIN IdIndex :
                     id \in DOMAIN IdIndex' /\ IdIndex'[id] = IdIndex[id]
               /\ pc[p] = "cb_locked" =>
                     /\ Len(BlockSet') = Len(BlockSet) + 1
                     /\ BlockSet'[Len(BlockSet')].Id = be[p]]_vars

\* a second block was appended behind the first, and an Upgrade has
\* succeeded on the two blocks
C37_Witness ==
    /\ Len(BlockSet) = 2
    /\ IsSorted
    /\ \E p \in Procs : pc[p] = "idle" /\ ret[p] = "nil"
    /\ \E p \in Procs : pc[p] = "idle" /\ ret[p] = "be"

\* C35: whatever CreateBlock, SimpleCreateBlock and
\* SimpleGetOrCreateNextBlock calls are made, one after the other or
\* interleaved, the segment never holds more than SegmentMaxBlocks blocks.
C35_AtMostMaxBlocks == Len(BlockSet) <= SegmentMaxBlocks

\* the positions from which, up to the last block, every block is not
\* full and ordered after from
TrailingRun(blocks, from) ==
    {i \in 1..Len(blocks) :
        \A j \in i..Len(blocks) : ~IsFull(blocks[j]) /\ Less(from, blocks[j])}

\* C38: SimpleGetOrCreateNextBlock(from) creates a block exactly when the
\* segment is empty, or no trailing block is both not full and ordered
\* after from and HasMaxBlocks() is false; otherwise it returns the
\* earliest block of the trailing run of blocks that are not full and
\* ordered after from, or nil when there is none; the block it returns is
\* not full.
C38_GetOrCreateNextBlock ==
    [][\A p \in Procs, from \in {NilBlock} \cup BlockIds(BlockSet) :
         SimpleGetOrCreateNextBlock(p, from) =>
            LET run == TrailingRun(BlockSet, from)
                creates == pc'[p] = "cb_lock"
            IN /\ creates <=>
                     \/ Len(BlockSet) = 0
                     \/ /\ run = {}
                        /\ ~HasMaxBlocks(IsSorted, BlockSet, SegmentMaxBlocks)
               /\ ~creates =>
                     IF run # {}
                     THEN /\ ret'[p] = "blk"
                          /\ nextBlk'[p] =
                                BlockSet[CHOOSE i \in run : \A j \in run : i <= j].Id
                          /\ ~IsFull(BlockOf(BlockSet, nextBlk'[p]))
                     ELSE /\ ret'[p] = "nil block"
                          /\ nextBlk'[p] = NilBlock]_vars

\* of two trailing blocks that are not full the earlier one was returned,
\* and a call on a segment whose blocks are all full returned nil
C38_Witness ==
    /\ \E p \in Procs :
          /\ ret[p] = "blk"
          /\ Len(BlockSet) = 2
          /\ nextBlk[p] = BlockSet[1].Id
          /\ ~IsFull(BlockSet[1]) /\ ~IsFull(BlockSet[2])

====
